---- MODULE Spec2Model ----
(***************************************************************************)
(* Verification model of the serialization and commitment layer and of     *)
(* the slot loop of the state transition:                                  *)
(*   - utils/merkle_proof   generalized-index Merkle proofs                *)
(*   - utils/mif_tree_hash  merkleize / merkle_root                        *)
(*   - utils/mif_ssz        Encode / Decode, SszEncoder, SszDecoderBuilder *)
(*   - utils/mif_ssz_types  FixedVector, VariableList, Bitfield            *)
(*   - utils/ssz_new        Decoder                                        *)
(*   - transition_functions process_slots, process_slot                    *)
(*                                                                         *)
(* The hash function is modelled as a free (collision-free) constructor:   *)
(* the hash of the concatenation of two 32-byte values l and r is the      *)
(* term <<"h", l, r>>.  Opaque 32-byte values are <<"v", n>>, raw 32-byte  *)
(* chunks are <<"raw", bytes>>.                                            *)
(***************************************************************************)
EXTENDS Integers, Sequences, FiniteSets, TLC

VARIABLES
    mp_in,      \* merkle_proof: arguments of the call
    mp_out,     \* merkle_proof: value returned by the call, or Pending
    mk_in,      \* mif_tree_hash: arguments of merkle_root
    mk_out,     \* mif_tree_hash: value returned, or Pending
    sz_in,      \* mif_ssz: the type and the value or the bytes handed in
    sz_enc,     \* mif_ssz: Ok(bytes returned by as_ssz_bytes), or Pending
    sz_dec,     \* mif_ssz: value returned by from_ssz_bytes, or Pending
    enc,        \* SszEncoder: offset, buf, variable_bytes
    enc_log,    \* SszEncoder: the calls made so far
    bld,        \* SszDecoderBuilder: bytes, items, offsets, items_index
    bld_log,    \* SszDecoderBuilder: the calls made so far and the last result
    fv,         \* FixedVector: element type, N and the value constructed
    fv_log,     \* FixedVector: the constructor called, its argument, the mutations
    vl,         \* VariableList: element type, N and the value constructed
    vl_log,     \* VariableList: the constructor called and the last call made
    bf,         \* Bitfield: Variable or Fixed, N and the value constructed
    bf_log,     \* Bitfield: the last call made, its argument and its result
    dcd,        \* ssz_new Decoder: bytes, the two cursors, offsets and their index
    dcd_log,    \* ssz_new Decoder: the fields declared, those read, the last call
    beacon,     \* process_slots: the BeaconState
    slots       \* process_slots: the target slot, the position, the calls made

mp_vars == <<mp_in, mp_out>>
mk_vars == <<mk_in, mk_out>>
sz_vars == <<sz_in, sz_enc, sz_dec>>
enc_vars == <<enc, enc_log>>
bld_vars == <<bld, bld_log>>
fv_vars == <<fv, fv_log>>
vl_vars == <<vl, vl_log>>
bf_vars == <<bf, bf_log>>
dc_vars == <<dcd, dcd_log>>
sl_vars == <<beacon, slots>>
vars == <<mp_in, mp_out, mk_in, mk_out, sz_in, sz_enc, sz_dec, enc, enc_log,
          bld, bld_log, fv, fv_log, vl, vl_log, bf, bf_log, dcd, dcd_log,
          beacon, slots>>

not_mp_vars == <<mk_vars, sz_vars, enc_vars, bld_vars, fv_vars, vl_vars,
    bf_vars, dc_vars, sl_vars>>
not_mk_vars == <<mp_vars, sz_vars, enc_vars, bld_vars, fv_vars, vl_vars,
    bf_vars, dc_vars, sl_vars>>
not_sz_vars == <<mp_vars, mk_vars, enc_vars, bld_vars, fv_vars, vl_vars,
    bf_vars, dc_vars, sl_vars>>
not_enc_vars == <<mp_vars, mk_vars, sz_vars, bld_vars, fv_vars, vl_vars,
    bf_vars, dc_vars, sl_vars>>
not_bld_vars == <<mp_vars, mk_vars, sz_vars, enc_vars, fv_vars, vl_vars,
    bf_vars, dc_vars, sl_vars>>
not_fv_vars == <<mp_vars, mk_vars, sz_vars, enc_vars, bld_vars, vl_vars,
    bf_vars, dc_vars, sl_vars>>
not_vl_vars == <<mp_vars, mk_vars, sz_vars, enc_vars, bld_vars, fv_vars,
    bf_vars, dc_vars, sl_vars>>
not_bf_vars == <<mp_vars, mk_vars, sz_vars, enc_vars, bld_vars, fv_vars,
    vl_vars, dc_vars, sl_vars>>
not_dc_vars == <<mp_vars, mk_vars, sz_vars, enc_vars, bld_vars, fv_vars,
    vl_vars, bf_vars, sl_vars>>
not_sl_vars == <<mp_vars, mk_vars, sz_vars, enc_vars, bld_vars, fv_vars,
    vl_vars, bf_vars, dc_vars>>

(***************************************************************************)
(* Results: Rust's Result<T, E>, and a panic (unwrap/expect/panic!/index   *)
(* out of range) as a third outcome.                                       *)
(***************************************************************************)
Pending == [ok |-> FALSE, pending |-> TRUE]
Ok(v) == [ok |-> TRUE, v |-> v]
Err(e) == [ok |-> FALSE, err |-> e]
Panic(msg) == [ok |-> FALSE, panic |-> msg]

IsOk(r) == r.ok
IsErr(r) == ~r.ok /\ "err" \in DOMAIN r
IsPanic(r) == ~r.ok /\ "panic" \in DOMAIN r
IsPending(r) == ~r.ok /\ "pending" \in DOMAIN r
ErrKind(r, k) == IsErr(r) /\ r.err.kind = k

Min(a, b) == IF a <= b THEN a ELSE b
Max(a, b) == IF a >= b THEN a ELSE b

RECURSIVE Pow2(_)
Pow2(n) == IF n = 0 THEN 1 ELSE 2 * Pow2(n - 1)

RECURSIVE FloorLog2(_)
FloorLog2(n) == IF n <= 1 THEN 0 ELSE 1 + FloorLog2(n \div 2)

SetMax(S) == CHOOSE x \in S : \A y \in S : y <= x
SetMin(S) == CHOOSE x \in S : \A y \in S : x <= y

\* Vec::sort on a vector without duplicates, given as its set of elements
RECURSIVE SortAsc(_)
SortAsc(S) == IF S = {} THEN <<>> ELSE <<SetMin(S)>> \o SortAsc(S \ {SetMin(S)})

Range(s) == {s[i] : i \in 1..Len(s)}

(***************************************************************************)
(* utils/merkle_proof/src/lib.rs                                           *)
(***************************************************************************)

\* hash(concat(h1, h2)) for a collision-free hash
hash_and_concat(h1, h2) == <<"h", h1, h2>>

\* Indices below 2^21 - 1 at which ln(index)/ln(2), evaluated in IEEE single
\* precision as log_of! does, rounds to just below the integer floor(log2):
\* 2^13 gives 12.999999 and 2^15 gives 14.999999.
F32LogRoundsDown == {8192, 32768}

\* (index as f32).log(2.) as usize; index = 0 gives -inf, which casts to 0.
\* Valid for index < 2^21 - 1, where the conversion to f32 is exact.
get_generalized_index_length(index) ==
    IF index \in F32LogRoundsDown THEN FloorLog2(index) - 1 ELSE FloorLog2(index)

get_generalized_index_bit(index, position) ==
    ((index \div Pow2(position)) % 2) > 0

\* index ^ 1
generalized_index_sibling(index) ==
    IF index % 2 = 0 THEN index + 1 ELSE index - 1

generalized_index_parent(index) == index \div 2

RECURSIVE BranchLoop(_)
BranchLoop(branch) ==
    IF branch[Len(branch)] > 1
    THEN BranchLoop(Append(branch,
            generalized_index_sibling(generalized_index_parent(branch[Len(branch)]))))
    ELSE branch

get_branch_indices(tree_index) ==
    BranchLoop(<<generalized_index_sibling(tree_index)>>)

RECURSIVE PathLoop(_)
PathLoop(path) ==
    IF path[Len(path)] > 1
    THEN PathLoop(Append(path, generalized_index_parent(path[Len(path)])))
    ELSE path

get_path_indices(tree_index) == PathLoop(<<tree_index>>)

reverse_vector(data) == [i \in 1..Len(data) |-> data[Len(data) + 1 - i]]

\* variant: the sorted answer is returned without being reversed
get_helper_indices_ascending(indices) ==
    LET pre_answer == UNION {Range(get_branch_indices(indices[j])) : j \in 1..Len(indices)}
        pre_answer_2 == UNION {Range(get_path_indices(indices[j])) : j \in 1..Len(indices)}
    IN  SortAsc(pre_answer \ pre_answer_2)

get_helper_indices(indices) ==
    LET pre_answer == UNION {Range(get_branch_indices(indices[j])) : j \in 1..Len(indices)}
        pre_answer_2 == UNION {Range(get_path_indices(indices[j])) : j \in 1..Len(indices)}
        hash_answer == pre_answer \ pre_answer_2
    IN  reverse_vector(SortAsc(hash_answer))

\* variant: the two lengths of the error are exchanged
InvalidParamLength_swapped(a, b) ==
    [kind |-> "InvalidParamLength", len_first |-> b, len_second |-> a]

InvalidParamLength(a, b) ==
    [kind |-> "InvalidParamLength", len_first |-> a, len_second |-> b]

\* the fold of calculate_merkle_root over proof[i..], 1-based position i
RECURSIVE FoldProof(_, _, _, _)
FoldProof(root, proof, index, i) ==
    IF i > Len(proof) THEN root
    ELSE FoldProof(IF get_generalized_index_bit(index, i - 1)
                   THEN hash_and_concat(proof[i], root)
                   ELSE hash_and_concat(root, proof[i]),
                   proof, index, i + 1)

\* variant: the fold puts the sibling on the right at every level
RECURSIVE FoldProofLeftOnly(_, _, _)
FoldProofLeftOnly(root, proof, i) ==
    IF i > Len(proof) THEN root
    ELSE FoldProofLeftOnly(hash_and_concat(root, proof[i]), proof, i + 1)

calculate_merkle_root_left_only(leaf, proof, index) ==
    IF Len(proof) # get_generalized_index_length(index)
    THEN Err(InvalidParamLength(Len(proof), get_generalized_index_length(index)))
    ELSE Ok(FoldProofLeftOnly(leaf, proof, 1))

calculate_merkle_root(leaf, proof, index) ==
    IF Len(proof) # get_generalized_index_length(index)
    THEN Err(InvalidParamLength(Len(proof), get_generalized_index_length(index)))
    ELSE Ok(FoldProof(leaf, proof, index, 1))

verify_merkle_proof(leaf, proof, depth, index, root) ==
    LET r == calculate_merkle_root(leaf, proof, index)
    IN  IF IsOk(r) THEN Ok(r.v = root) ELSE r

\* HashMap::insert of indices.zip(leaves): the last pair of a key wins
index_leave_map_of(indices, leaves) ==
    [k \in Range(indices) |->
        leaves[SetMax({j \in 1..Len(indices) : indices[j] = k})]]

helper_proof_map_of(helper_indices, proof) ==
    LET n == Min(Len(helper_indices), Len(proof))
    IN  [k \in {helper_indices[j] : j \in 1..n} |->
            proof[CHOOSE j \in 1..n : helper_indices[j] = k]]

\* HashMap::extend: entries of m2 replace those of m1
MapExtend(m1, m2) ==
    [k \in DOMAIN m1 \cup DOMAIN m2 |-> IF k \in DOMAIN m2 THEN m2[k] ELSE m1[k]]

MapInsert(m, k, v) ==
    [x \in DOMAIN m \cup {k} |-> IF x = k THEN v ELSE m[x]]

\* the while loop over keys[position..], position 0-based as in the source
RECURSIVE MultiLoop(_, _, _)
MultiLoop(map, keys, position) ==
    IF position >= Len(keys) THEN map
    ELSE LET k == keys[position + 1]
             contains_itself == k \in DOMAIN map
             contains_sibling == generalized_index_sibling(k) \in DOMAIN map
             contains_parent == (k \div 2) \in DOMAIN map
             index_second == IF k % 2 = 0 THEN k + 1 ELSE k
             index_first == index_second - 1
         IN  IF contains_itself /\ contains_sibling /\ ~contains_parent
             THEN MultiLoop(MapInsert(map, k \div 2,
                                hash_and_concat(map[index_first], map[index_second])),
                            keys, position + 1)
             ELSE MultiLoop(map, keys, position + 1)

calculate_multi_merkle_root(leaves, proof, indices) ==
    IF Len(leaves) # Len(indices)
    THEN Err(InvalidParamLength(Len(leaves), Len(indices)))
    ELSE LET helper_indices == get_helper_indices(indices)
             index_leave_map == MapExtend(index_leave_map_of(indices, leaves),
                                          helper_proof_map_of(helper_indices, proof))
         IN  IF DOMAIN index_leave_map = {}
             THEN Panic("keys.get(0).unwrap()")
             ELSE LET biggest == SetMax(DOMAIN index_leave_map)
                      keys == reverse_vector(SortAsc(DOMAIN index_leave_map \cup (1..biggest)))
                      final == MultiLoop(index_leave_map, keys, 1)
                  IN  IF 1 \in DOMAIN final
                      THEN Ok(final[1])
                      ELSE Panic("index_leave_map.get(&1).unwrap()")

verify_merkle_multiproof(leaves, proof, indices, root) ==
    LET r == calculate_multi_merkle_root(leaves, proof, indices)
    IN  IF IsOk(r) THEN Ok(r.v = root) ELSE r

(***************************************************************************)
(* utils/mif_tree_hash/src/merkleize.rs and lib.rs                         *)
(* A byte vector that holds chunks produced by hashing is modelled as the  *)
(* sequence of its 32-byte chunks.                                         *)
(***************************************************************************)
BYTES_PER_CHUNK == 32
MAX_TREE_DEPTH == 48

Zeros(n) == [i \in 1..n |-> 0]
RawChunk(b) == <<"raw", b>>

\* Vec::resize(n, 0): truncates or pads with zero bytes
Resize(b, n) == [i \in 1..n |-> IF i <= Len(b) THEN b[i] ELSE 0]

\* eth2_hashing::hash of a slice of 2 * BYTES_PER_CHUNK bytes
hash(b) ==
    hash_and_concat(RawChunk(SubSeq(b, 1, BYTES_PER_CHUNK)),
                    RawChunk(SubSeq(b, BYTES_PER_CHUNK + 1, 2 * BYTES_PER_CHUNK)))

hash_concat(h1, h2) == hash_and_concat(h1, h2)

next_even(n) == n + (n % 2)

\* usize::next_power_of_two
RECURSIVE NextPow2From(_, _)
NextPow2From(n, p) == IF p >= n THEN p ELSE NextPow2From(n, 2 * p)
next_power_of_two(n) == NextPow2From(n, 1)

RECURSIVE ZERO_HASHES(_)
ZERO_HASHES(i) ==
    IF i = 0 THEN RawChunk(Zeros(BYTES_PER_CHUNK))
    ELSE hash_concat(ZERO_HASHES(i - 1), ZERO_HASHES(i - 1))

zero_hash_for_height(height) ==
    IF height <= MAX_TREE_DEPTH THEN Ok(ZERO_HASHES(height))
    ELSE Panic("Tree exceeds MAX_TREE_DEPTH")

ChunksHolder_for_chunks(chunks_count) ==
    [i \in 1..chunks_count |-> RawChunk(Zeros(BYTES_PER_CHUNK))]

\* ChunksHolder::set followed by expect; every value stored is one hash output
ChunksHolder_set(chunks, chunk, value) ==
    IF chunk < Len(chunks) THEN Ok([chunks EXCEPT ![chunk + 1] = value])
    ELSE Panic("Buffer has allocated enough space")

ChunksHolder_get(chunks, chunk) ==
    IF chunk < Len(chunks) THEN Ok(chunks[chunk + 1]) ELSE Err([kind |-> "()"])

ChunksHolder_truncate(chunks, to_chunks) == SubSeq(chunks, 1, Min(to_chunks, Len(chunks)))

\* the first loop of merkleize: one hash per pair of leaves
RECURSIVE BottomLoop(_, _, _, _)
BottomLoop(bytes, chunks, i, n) ==
    IF i >= n THEN Ok(chunks)
    ELSE LET start_offset == i * BYTES_PER_CHUNK * 2
         IN  IF start_offset + BYTES_PER_CHUNK * 2 <= Len(bytes)
             THEN LET st == ChunksHolder_set(chunks, i,
                              hash(SubSeq(bytes, start_offset + 1,
                                          start_offset + BYTES_PER_CHUNK * 2)))
                  IN  IF IsOk(st) THEN BottomLoop(bytes, st.v, i + 1, n) ELSE st
             ELSE IF start_offset > Len(bytes)
             THEN Panic("Leftover cannot be zero length")
             ELSE LET leftover_bytes == Resize(SubSeq(bytes, start_offset + 1, Len(bytes)),
                                               BYTES_PER_CHUNK * 2)
                      st == ChunksHolder_set(chunks, i, hash(leftover_bytes))
                  IN  IF IsOk(st) THEN BottomLoop(bytes, st.v, i + 1, n) ELSE st

\* the loop over parent_index of one level
RECURSIVE ParentLoop(_, _, _, _)
ParentLoop(chunks, height, parent_index, n) ==
    IF parent_index >= n THEN Ok(chunks)
    ELSE LET left_child == ChunksHolder_get(chunks, parent_index * 2)
             right_get == ChunksHolder_get(chunks, parent_index * 2 + 1)
             right_child == IF IsOk(right_get) THEN right_get
                            ELSE zero_hash_for_height(height)
         IN  IF ~IsOk(left_child) THEN Panic("Parent have to have left child")
             ELSE IF ~IsOk(right_child) THEN right_child
             ELSE LET st == ChunksHolder_set(chunks, parent_index,
                                             hash_concat(left_child.v, right_child.v))
                  IN  IF IsOk(st) THEN ParentLoop(st.v, height, parent_index + 1, n) ELSE st

\* for height in from..to-1
RECURSIVE LevelLoop(_, _, _)
LevelLoop(chunks, height, to) ==
    IF height >= to THEN Ok(chunks)
    ELSE LET child_nodes_count == Len(chunks)
             parent_nodes_count == next_even(child_nodes_count)
             lv == ParentLoop(chunks, height, 0, parent_nodes_count)
         IN  IF IsOk(lv)
             THEN LevelLoop(ChunksHolder_truncate(lv.v, parent_nodes_count), height + 1, to)
             ELSE lv

\* merkleize with the short-buffer branch removed: a buffer of at most one
\* chunk is hashed as a pair of leaves like any other
merkleize_always_hashing(bytes) ==
    Ok(<<hash(Resize(bytes, BYTES_PER_CHUNK * 2))>>)

\* the returned Vec<u8>, as the sequence of its chunks
merkleize(bytes) ==
    IF Len(bytes) <= BYTES_PER_CHUNK
    THEN Ok(<<RawChunk(Resize(bytes, BYTES_PER_CHUNK))>>)
    ELSE LET leaves_with_value_count == (Len(bytes) + BYTES_PER_CHUNK - 1) \div BYTES_PER_CHUNK
             parents_with_value_count == Max(1, next_even(leaves_with_value_count))
             total_leaves_count == next_power_of_two(leaves_with_value_count)
             height == FloorLog2(total_leaves_count) + 1
             bottom == BottomLoop(bytes, ChunksHolder_for_chunks(parents_with_value_count),
                                  0, parents_with_value_count)
         IN  IF ~IsOk(bottom) THEN bottom
             ELSE LET levels == LevelLoop(bottom.v, 1, height - 1)
                  IN  IF ~IsOk(levels) THEN levels
                      ELSE IF Len(levels.v) * BYTES_PER_CHUNK = BYTES_PER_CHUNK
                      THEN Panic("Merkle root hash calculated incorrectly")
                      ELSE Ok(levels.v)

\* merkle_root hands min_leaves to merkleize, which has no such parameter and
\* no use for it
merkle_root(bytes, min_leaves) == merkleize(bytes)

(***************************************************************************)
(* utils/mif_ssz: Encode / Decode                                          *)
(* A Rust type is a descriptor:                                            *)
(*   [k |-> "uint", w |-> bytes]   u8, u16, u32, u64 and usize             *)
(*   [k |-> "bool"]   [k |-> "h256"]                                       *)
(*   [k |-> "vec", t |-> T]   [k |-> "opt", t |-> T]                       *)
(*   [k |-> "struct", fs |-> <<T1, ..., Tn>>]   a struct with              *)
(*       #[derive(Encode, Decode)], fs its serialized fields in order      *)
(* A value is a number, a boolean, a sequence of 32 bytes, a sequence of   *)
(* elements, None / Some(v), or the sequence of the field values.          *)
(***************************************************************************)
BYTES_PER_LENGTH_OFFSET == 4

U8 == [k |-> "uint", w |-> 1]
U16 == [k |-> "uint", w |-> 2]
U32 == [k |-> "uint", w |-> 4]
U64 == [k |-> "uint", w |-> 8]
BoolT == [k |-> "bool"]
H256T == [k |-> "h256"]
U128 == [k |-> "uint", w |-> 16]
U256 == [k |-> "uint", w |-> 32]
VecT(t) == [k |-> "vec", t |-> t]
OptT(t) == [k |-> "opt", t |-> t]
StructT(fs) == [k |-> "struct", fs |-> fs]

None == [some |-> FALSE]
Some(v) == [some |-> TRUE, v |-> v]

InvalidByteLength(len, expected) ==
    [kind |-> "InvalidByteLength", len |-> len, expected |-> expected]
InvalidLengthPrefix(len, expected) ==
    [kind |-> "InvalidLengthPrefix", len |-> len, expected |-> expected]
OutOfBoundsByte(i) == [kind |-> "OutOfBoundsByte", i |-> i]
BytesInvalid(what, value) == [kind |-> "BytesInvalid", what |-> what, value |-> value]

\* to_le_bytes()[0..n]
RECURSIVE to_le_bytes(_, _)
to_le_bytes(v, n) == IF n = 0 THEN <<>> ELSE <<v % 256>> \o to_le_bytes(v \div 256, n - 1)

RECURSIVE from_le_bytes(_)
from_le_bytes(b) == IF b = <<>> THEN 0 ELSE b[1] + 256 * from_le_bytes(Tail(b))

\* slice.get(from..to), 0-based and end-exclusive; None when out of range
SliceGet(b, from, to) ==
    IF from <= to /\ to <= Len(b) THEN Some(SubSeq(b, from + 1, to)) ELSE None

\* &slice[from..]
SliceFrom(b, from) == SubSeq(b, from + 1, Len(b))

RECURSIVE is_ssz_fixed_len(_)
is_ssz_fixed_len(T) ==
    CASE T.k \in {"uint", "bool", "h256"} -> TRUE
      [] T.k \in {"vec", "opt"} -> FALSE
      [] T.k = "struct" -> \A i \in 1..Len(T.fs) : is_ssz_fixed_len(T.fs[i])

RECURSIVE ssz_fixed_len(_)
RECURSIVE SumFixedLens(_, _)
SumFixedLens(fs, i) ==
    IF i > Len(fs) THEN 0 ELSE ssz_fixed_len(fs[i]) + SumFixedLens(fs, i + 1)

\* $size taken as the length, without the division by 8
ssz_fixed_len_in_bits(T) ==
    CASE T.k = "uint" -> T.w * 8
      [] T.k = "bool" -> 8
      [] T.k = "h256" -> 256
      [] T.k \in {"vec", "opt"} -> BYTES_PER_LENGTH_OFFSET
      [] T.k = "struct" -> IF is_ssz_fixed_len(T) THEN SumFixedLens(T.fs, 1)
                           ELSE BYTES_PER_LENGTH_OFFSET

ssz_fixed_len(T) ==
    CASE T.k = "uint" -> T.w
      [] T.k = "bool" -> 1
      [] T.k = "h256" -> 32
      [] T.k \in {"vec", "opt"} -> BYTES_PER_LENGTH_OFFSET
      [] T.k = "struct" -> IF is_ssz_fixed_len(T) THEN SumFixedLens(T.fs, 1)
                           ELSE BYTES_PER_LENGTH_OFFSET

encode_length(len) == to_le_bytes(len, BYTES_PER_LENGTH_OFFSET)
\* the index written as a single byte
encode_union_index_one_byte(index) == <<index % 256>>

encode_union_index(index) == encode_length(index)

SszEncoder_container(buf, num_fixed_bytes) ==
    [offset |-> num_fixed_bytes, buf |-> buf, variable_bytes |-> <<>>]

SszEncoder_list(buf, num_fixed_bytes) == SszEncoder_container(buf, num_fixed_bytes)

RECURSIVE ssz_append(_, _, _)
RECURSIVE SszEncoder_append(_, _, _)
RECURSIVE AppendEach(_, _, _, _)
RECURSIVE EncoderAppendEach(_, _, _, _)

\* variant: the offset written does not count the payloads written so far
SszEncoder_append_stale_offset(self, T, item) ==
    IF is_ssz_fixed_len(T)
    THEN [self EXCEPT !.buf = ssz_append(T, item, self.buf)]
    ELSE [self EXCEPT !.buf = self.buf \o encode_length(self.offset),
                      !.variable_bytes = ssz_append(T, item, self.variable_bytes)]

SszEncoder_append(self, T, item) ==
    IF is_ssz_fixed_len(T)
    THEN [self EXCEPT !.buf = ssz_append(T, item, self.buf)]
    ELSE LET total_offset == self.offset + Len(self.variable_bytes)
         IN  [self EXCEPT !.buf = self.buf \o encode_length(total_offset),
                         !.variable_bytes = ssz_append(T, item, self.variable_bytes)]

SszEncoder_finalize(self) ==
    [self EXCEPT !.buf = self.buf \o self.variable_bytes, !.variable_bytes = <<>>]

\* for el in self { el.ssz_append(buf) }
AppendEach(T, items, i, buf) ==
    IF i > Len(items) THEN buf
    ELSE AppendEach(T, items, i + 1, ssz_append(T, items[i], buf))

\* encoder.append(field) for the fields (types Ts[i], values items[i]) in order
EncoderAppendEach(Ts, items, i, self) ==
    IF i > Len(items) THEN self
    ELSE EncoderAppendEach(Ts, items, i + 1, SszEncoder_append(self, Ts[i], items[i]))

ssz_append(T, v, buf) ==
    CASE T.k = "uint" -> buf \o to_le_bytes(v, T.w)
      [] T.k = "bool" -> buf \o to_le_bytes(IF v THEN 1 ELSE 0, 1)
      [] T.k = "h256" -> buf \o v
      [] T.k = "vec" ->
            IF is_ssz_fixed_len(T.t)
            THEN AppendEach(T.t, v, 1, buf)
            ELSE SszEncoder_finalize(
                    EncoderAppendEach([i \in 1..Len(v) |-> T.t], v, 1,
                        SszEncoder_list(buf, Len(v) * BYTES_PER_LENGTH_OFFSET))).buf
      [] T.k = "opt" ->
            IF v.some THEN ssz_append(T.t, v.v, buf \o encode_union_index(1))
            ELSE buf \o encode_union_index(0)
      [] T.k = "struct" ->
            SszEncoder_finalize(
                EncoderAppendEach(T.fs, v, 1,
                    SszEncoder_container(buf, SumFixedLens(T.fs, 1)))).buf

as_ssz_bytes(T, v) == ssz_append(T, v, <<>>)

next_offset(bytes) ==
    IF Len(bytes) < BYTES_PER_LENGTH_OFFSET
    THEN Err(InvalidLengthPrefix(Len(bytes), BYTES_PER_LENGTH_OFFSET))
    ELSE Ok(from_le_bytes(SubSeq(bytes, 1, BYTES_PER_LENGTH_OFFSET)))

read_union_index(bytes) == next_offset(bytes)

SszDecoderBuilder_new(bytes) ==
    [bytes |-> bytes, items |-> <<>>, offsets |-> <<>>, items_index |-> 0]

\* the result r of the call and the builder b it leaves behind
SszDecoderBuilder_register_type(b, T) ==
    IF is_ssz_fixed_len(T)
    THEN LET start_index == b.items_index
             b1 == [b EXCEPT !.items_index = start_index + ssz_fixed_len(T)]
             slice == SliceGet(b.bytes, start_index, b1.items_index)
         IN  IF slice.some
             THEN [r |-> Ok(<<>>), b |-> [b1 EXCEPT !.items = Append(b.items, slice.v)]]
             ELSE [r |-> Err(InvalidByteLength(Len(b.bytes), b1.items_index)), b |-> b1]
    ELSE IF b.items_index > Len(b.bytes)
    THEN [r |-> Panic("slice index starts out of range"), b |-> b]
    ELSE LET current == next_offset(SliceFrom(b.bytes, b.items_index))
             previous_offset == IF b.offsets = <<>> THEN BYTES_PER_LENGTH_OFFSET
                                ELSE b.offsets[Len(b.offsets)].offset
         IN  IF ~IsOk(current) THEN [r |-> current, b |-> b]
             ELSE IF previous_offset > current.v \/ current.v > Len(b.bytes)
             THEN [r |-> Err(OutOfBoundsByte(current.v)), b |-> b]
             ELSE [r |-> Ok(<<>>),
                   b |-> [b EXCEPT
                            !.offsets = Append(b.offsets,
                                [position |-> Len(b.items), offset |-> current.v]),
                            !.items = Append(b.items, <<>>),
                            !.items_index = b.items_index + BYTES_PER_LENGTH_OFFSET]]

\* for limits in self.offsets.windows(2), from window w on
RECURSIVE BuildWindows(_, _, _)
BuildWindows(b, items, w) ==
    IF w >= Len(b.offsets) THEN Ok(items)
    ELSE LET start == b.offsets[w]
             end == b.offsets[w + 1]
             bytes == SliceGet(b.bytes, start.offset, end.offset)
         IN  IF bytes.some
             THEN BuildWindows(b, [items EXCEPT ![start.position + 1] = bytes.v], w + 1)
             ELSE Err(OutOfBoundsByte(start.offset))

\* variant: build does not compare the first offset with the head size
SszDecoderBuilder_build_any_first_offset(b) ==
    IF b.offsets # <<>>
    THEN LET win == BuildWindows(b, b.items, 1)
             last_offset == b.offsets[Len(b.offsets)]
             bytes == SliceGet(b.bytes, last_offset.offset, Len(b.bytes))
         IN  IF ~IsOk(win) THEN win
             ELSE IF bytes.some
             THEN Ok([win.v EXCEPT ![last_offset.position + 1] = bytes.v])
             ELSE Err(OutOfBoundsByte(last_offset.offset))
    ELSE Ok(b.items)

\* Ok(items of the SszDecoder) or the error
SszDecoderBuilder_build(b) ==
    IF b.offsets # <<>>
    THEN IF b.offsets[1].offset # b.items_index
         THEN Err(OutOfBoundsByte(b.offsets[1].offset))
         ELSE LET win == BuildWindows(b, b.items, 1)
                  last_offset == b.offsets[Len(b.offsets)]
                  bytes == SliceGet(b.bytes, last_offset.offset, Len(b.bytes))
              IN  IF ~IsOk(win) THEN win
                  ELSE IF bytes.some
                  THEN Ok([win.v EXCEPT ![last_offset.position + 1] = bytes.v])
                  ELSE Err(OutOfBoundsByte(last_offset.offset))
    ELSE Ok(b.items)

RECURSIVE from_ssz_bytes(_, _)
RECURSIVE DecodeChunks(_, _, _)
RECURSIVE ListItemsLoop(_, _, _, _, _, _)
RECURSIVE RegisterEach(_, _, _)
RECURSIVE DecodeNextEach(_, _, _, _)

\* bytes.chunks(n).map(T::from_ssz_bytes).collect(): the first error wins
DecodeChunks(T, bytes, acc) ==
    IF bytes = <<>> THEN Ok(acc)
    ELSE LET n == Min(ssz_fixed_len(T), Len(bytes))
             el == from_ssz_bytes(T, SubSeq(bytes, 1, n))
         IN  IF IsOk(el) THEN DecodeChunks(T, SliceFrom(bytes, n), Append(acc, el.v))
             ELSE el

\* for i in i..=items_count of decode_list_of_variable_length_items
ListItemsLoop(T, bytes, value_offset, i, items_count, items) ==
    IF i > items_count THEN Ok(items)
    ELSE IF i = items_count
    THEN LET items_bytes == SliceGet(bytes, value_offset, Len(bytes))
         IN  IF ~items_bytes.some THEN Err(OutOfBoundsByte(value_offset))
             ELSE LET el == from_ssz_bytes(T, items_bytes.v)
                  IN  IF IsOk(el)
                      THEN ListItemsLoop(T, bytes, value_offset, i + 1, items_count,
                                         Append(items, el.v))
                      ELSE el
    ELSE IF i * BYTES_PER_LENGTH_OFFSET > Len(bytes)
    THEN Panic("slice index starts out of range")
    ELSE LET next_value_offset == next_offset(SliceFrom(bytes, i * BYTES_PER_LENGTH_OFFSET))
         IN  IF ~IsOk(next_value_offset) THEN next_value_offset
             ELSE LET items_bytes == SliceGet(bytes, value_offset, next_value_offset.v)
                  IN  IF ~items_bytes.some THEN Err(OutOfBoundsByte(next_value_offset.v))
                      ELSE LET el == from_ssz_bytes(T, items_bytes.v)
                           IN  IF IsOk(el)
                               THEN ListItemsLoop(T, bytes, next_value_offset.v, i + 1,
                                                  items_count, Append(items, el.v))
                               ELSE el

\* variant: the first offset is not compared with the size of a slot
decode_list_any_first_offset(T, bytes) ==
    LET value_offset == next_offset(bytes)
    IN  IF ~IsOk(value_offset) THEN value_offset
        ELSE ListItemsLoop(T, bytes, value_offset.v, 1,
                           value_offset.v \div BYTES_PER_LENGTH_OFFSET, <<>>)

decode_list_of_variable_length_items(T, bytes) ==
    LET value_offset == next_offset(bytes)
    IN  IF ~IsOk(value_offset) THEN value_offset
        ELSE IF value_offset.v < BYTES_PER_LENGTH_OFFSET
        THEN Err(OutOfBoundsByte(value_offset.v))
        ELSE ListItemsLoop(T, bytes, value_offset.v, 1,
                           value_offset.v \div BYTES_PER_LENGTH_OFFSET, <<>>)

\* builder.register_type::<field type>()? for the fields from i on
RegisterEach(b, fs, i) ==
    IF i > Len(fs) THEN Ok(b)
    ELSE LET reg == SszDecoderBuilder_register_type(b, fs[i])
         IN  IF IsOk(reg.r) THEN RegisterEach(reg.b, fs, i + 1) ELSE reg.r

\* field: decoder.decode_next()? for the fields from i on
DecodeNextEach(fs, items, i, acc) ==
    IF i > Len(fs) THEN Ok(acc)
    ELSE IF i > Len(items) THEN Panic("removal index out of bounds")
    ELSE LET el == from_ssz_bytes(fs[i], items[i])
         IN  IF IsOk(el) THEN DecodeNextEach(fs, items, i + 1, Append(acc, el.v)) ELSE el

from_ssz_bytes(T, bytes) ==
    CASE T.k = "uint" ->
            IF Len(bytes) # ssz_fixed_len(T)
            THEN Err(InvalidByteLength(Len(bytes), ssz_fixed_len(T)))
            ELSE Ok(from_le_bytes(bytes))
      [] T.k = "bool" ->
            IF Len(bytes) # ssz_fixed_len(T)
            THEN Err(InvalidByteLength(Len(bytes), ssz_fixed_len(T)))
            ELSE IF bytes[1] = 0 THEN Ok(FALSE)
            ELSE IF bytes[1] = 1 THEN Ok(TRUE)
            ELSE Err(BytesInvalid("Invalid value for boolean", bytes[1]))
      [] T.k = "h256" ->
            IF Len(bytes) # ssz_fixed_len(T)
            THEN Err(InvalidByteLength(Len(bytes), ssz_fixed_len(T)))
            ELSE Ok(bytes)
      [] T.k = "vec" ->
            IF bytes = <<>> THEN Ok(<<>>)
            ELSE IF is_ssz_fixed_len(T.t)
            THEN IF ssz_fixed_len(T.t) = 0 THEN Panic("chunk size must be non-zero")
                 ELSE DecodeChunks(T.t, bytes, <<>>)
            ELSE decode_list_of_variable_length_items(T.t, bytes)
      [] T.k = "opt" ->
            IF Len(bytes) < BYTES_PER_LENGTH_OFFSET
            THEN Err(InvalidByteLength(Len(bytes), BYTES_PER_LENGTH_OFFSET))
            ELSE LET index == read_union_index(SubSeq(bytes, 1, BYTES_PER_LENGTH_OFFSET))
                     value_bytes == SliceFrom(bytes, BYTES_PER_LENGTH_OFFSET)
                 IN  IF ~IsOk(index) THEN index
                     ELSE IF index.v = 0 THEN Ok(None)
                     ELSE IF index.v = 1
                     THEN LET el == from_ssz_bytes(T.t, value_bytes)
                          IN  IF IsOk(el) THEN Ok(Some(el.v)) ELSE el
                     ELSE Err(BytesInvalid("not a valid union index for Option<T>", index.v))
      [] T.k = "struct" ->
            LET builder == RegisterEach(SszDecoderBuilder_new(bytes), T.fs, 1)
            IN  IF ~IsOk(builder) THEN builder
                ELSE LET decoder == SszDecoderBuilder_build(builder.v)
                     IN  IF ~IsOk(decoder) THEN decoder
                         ELSE DecodeNextEach(T.fs, decoder.v, 1, <<>>)

(***************************************************************************)
(* Trees addressed by generalized index, built as the tests of             *)
(* utils/merkle_proof build them: leaves are fixed 32-byte values, node k  *)
(* is hash_and_concat(node 2k, node 2k+1), the root is node 1.             *)
(***************************************************************************)
MaxDepth == 2           \* depth of the exhaustively explored trees
DeepDepth == 13         \* depth of the one deep tree (node 8192 is a leaf)

LeafPeriods == {1, 4, 65536}    \* leaf k holds value k mod period

Trees == [depth : 1..MaxDepth, period : LeafPeriods]
DeepTree == [depth |-> DeepDepth, period |-> 4]

RECURSIVE TreeNode(_, _)
TreeNode(t, k) ==
    IF k >= Pow2(t.depth) THEN <<"v", k % t.period>>
    ELSE hash_and_concat(TreeNode(t, 2 * k), TreeNode(t, 2 * k + 1))

\* index 0 is the sibling of the root and is no node of the tree
OutsideValue == <<"v", 99>>
NodeAt(t, k) == IF k = 0 THEN OutsideValue ELSE TreeNode(t, k)

NodeIndices(t) == 1..(Pow2(t.depth + 1) - 1)

\* node sibling(k), node sibling(parent(k)), ... up to the child of the root
SiblingPath(t, k) ==
    [i \in 1..FloorLog2(k) |->
        TreeNode(t, generalized_index_sibling(k \div Pow2(i - 1)))]

\* values used to replace a leaf, a proof entry or the root
AltValues(t) == {<<"v", 0>>, <<"v", 1>>, <<"v", 7>>, TreeNode(t, 1), TreeNode(t, 2)}

ReplaceAt(s, j, v) == [s EXCEPT ![j] = v]

HonestSingle(t, k) ==
    [op |-> "single", tamper |-> "none", tree |-> t, k0 |-> k,
     leaf |-> TreeNode(t, k), proof |-> SiblingPath(t, k), depth |-> 0,
     index |-> k, root |-> TreeNode(t, 1)]

SingleVariants(t, k) ==
    LET h == HonestSingle(t, k)
    IN  {h}
        \cup {[h EXCEPT !.tamper = "leaf", !.leaf = v] : v \in AltValues(t) \ {h.leaf}}
        \cup {[h EXCEPT !.tamper = "proof", !.proof = ReplaceAt(h.proof, j, v)] :
                <<j, v>> \in {x \in (1..Len(h.proof)) \X AltValues(t) : h.proof[x[1]] # x[2]}}
        \cup {[h EXCEPT !.tamper = "index", !.index = k2] :
                k2 \in (NodeIndices(t) \cup {0}) \ {k}}
        \cup {[h EXCEPT !.tamper = "root", !.root = v] : v \in AltValues(t) \ {h.root}}
        \cup {[h EXCEPT !.tamper = "long", !.proof = Append(h.proof, v)] : v \in {<<"v", 0>>}}
        \cup {[h EXCEPT !.tamper = "short", !.proof = SubSeq(h.proof, 1, Len(h.proof) - 1)] :
                x \in IF Len(h.proof) > 0 THEN {0} ELSE {}}
        \cup {[h EXCEPT !.tamper = "depth", !.depth = 5]}

DeepIndices == {Pow2(DeepDepth), Pow2(DeepDepth) + 1, Pow2(DeepDepth - 1)}

MaxIndices == 2         \* length of the index lists of a multiproof

SeqsUpTo(S, n) == UNION {[1..m -> S] : m \in 0..n}

HonestLeaves(t, indices) == [j \in 1..Len(indices) |-> NodeAt(t, indices[j])]
HelperProof(t, indices) ==
    LET h == get_helper_indices(indices)
    IN  [j \in 1..Len(h) |-> NodeAt(t, h[j])]

HonestMulti(t, indices) ==
    [op |-> "multi", tamper |-> "none", tree |-> t,
     leaves |-> HonestLeaves(t, indices), proof |-> HelperProof(t, indices),
     indices |-> indices, root |-> TreeNode(t, 1)]

MultiVariants(t, indices) ==
    LET h == HonestMulti(t, indices)
    IN  {h}
        \cup {[h EXCEPT !.tamper = "leaf", !.leaves = ReplaceAt(h.leaves, j, v)] :
                <<j, v>> \in {x \in (1..Len(indices)) \X {<<"v", 7>>, TreeNode(t, 2)} :
                                h.leaves[x[1]] # x[2]}}
        \cup {[h EXCEPT !.tamper = "proof", !.proof = ReplaceAt(h.proof, j, <<"v", 7>>)] :
                j \in 1..Len(h.proof)}
        \cup {[h EXCEPT !.tamper = "short", !.proof = SubSeq(h.proof, 1, Len(h.proof) - n)] :
                n \in 1..Min(2, Len(h.proof))}
        \cup {[h EXCEPT !.tamper = "root", !.root = TreeNode(t, 2)]}
        \cup {[h EXCEPT !.tamper = "count", !.leaves = Append(h.leaves, <<"v", 7>>)]}
        \cup {[h EXCEPT !.tamper = "count", !.leaves = SubSeq(h.leaves, 1, Len(h.leaves) - 1)] :
                x \in IF Len(indices) > 0 THEN {0} ELSE {}}

MultiTrees == {t \in Trees : t.depth = MaxDepth}

ProofInit ==
    /\ \/ \E t \in Trees : \E k \in NodeIndices(t) : mp_in \in SingleVariants(t, k)
       \/ \E k \in DeepIndices : mp_in = HonestSingle(DeepTree, k)
       \/ \E t \in MultiTrees :
             \E indices \in SeqsUpTo(0..(Pow2(t.depth + 1) - 1), MaxIndices) :
                mp_in \in MultiVariants(t, indices)
    /\ mp_out = Pending

ProofIdle ==
    /\ mp_in = [op |-> "none"]
    /\ mp_out = Pending

VerifyMerkleProof ==
    /\ mp_in.op = "single"
    /\ IsPending(mp_out)
    /\ mp_out' = verify_merkle_proof(mp_in.leaf, mp_in.proof, mp_in.depth,
                                     mp_in.index, mp_in.root)
    /\ UNCHANGED <<mp_in, not_mp_vars>>

VerifyMerkleMultiproof ==
    /\ mp_in.op = "multi"
    /\ IsPending(mp_out)
    /\ mp_out' = verify_merkle_multiproof(mp_in.leaves, mp_in.proof,
                                          mp_in.indices, mp_in.root)
    /\ UNCHANGED <<mp_in, not_mp_vars>>

(***************************************************************************)
(* merkle_root applied to buffers of every length up to MaxBytes           *)
(***************************************************************************)
MaxBytes == 130
MaxMinLeaves == 4
FillSteps == {0, 1, 37}

\* byte i (0-based) of the buffer filled with step p
FillByte(p, i) == (p * (i + 1)) % 256
Buffer(len, p) == [i \in 1..len |-> FillByte(p, i - 1)]

MerkleInputs ==
    {[bytes |-> Buffer(len, p), min_leaves |-> m] :
        <<len, p, m>> \in (0..MaxBytes) \X FillSteps \X (0..MaxMinLeaves)}

MerkleInit ==
    /\ mk_in \in MerkleInputs
    /\ mk_out = Pending

MerkleIdle ==
    /\ mk_in = [op |-> "none"]
    /\ mk_out = Pending

MerkleRoot ==
    /\ mk_in \in MerkleInputs
    /\ IsPending(mk_out)
    /\ mk_out' = merkle_root(mk_in.bytes, mk_in.min_leaves)
    /\ UNCHANGED <<mk_in, not_mk_vars>>

(***************************************************************************)
(* as_ssz_bytes and from_ssz_bytes applied to values and to byte strings   *)
(***************************************************************************)
MaxVecLen == 2          \* elements of a Vec value
MaxWords == 3           \* 4-byte words at the start of a byte string
MaxTail == 3            \* bytes after the words

FixedS == StructT(<<U8, U16>>)
VarS == StructT(<<U8, VecT(U8), U16, VecT(U16)>>)
SmallVarS == StructT(<<VecT(U8), U8>>)
EmptyS == StructT(<<>>)

\* the types whose values are encoded and decoded again
RoundTripTypes ==
    {U8, U16, U32, U64, BoolT, H256T,
     VecT(U8), VecT(U16), VecT(BoolT), VecT(VecT(U8)), VecT(H256T),
     OptT(U8), OptT(U64), OptT(VecT(U8)), OptT(OptT(VecT(U16))), VecT(OptT(U8)),
     FixedS, VarS, SmallVarS, StructT(<<VecT(VecT(U8)), OptT(U8)>>),
     StructT(<<FixedS, VecT(FixedS)>>), VecT(SmallVarS), StructT(<<SmallVarS, VecT(U8)>>),
     EmptyS, VecT(EmptyS), StructT(<<EmptyS, U8>>)}

\* the types byte strings are decoded into
DecodeTypes ==
    {U8, U16, U32, BoolT,
     VecT(U8), VecT(U16), VecT(BoolT), VecT(VecT(U8)), VecT(VecT(U16)), VecT(OptT(U8)),
     OptT(U8), OptT(VecT(U8)),
     FixedS, StructT(<<VecT(U8)>>), StructT(<<U32, VecT(U8), VecT(U16)>>),
     StructT(<<VecT(U8), U32, VecT(VecT(U8))>>), EmptyS, VecT(EmptyS)}

UintValues(w) == {0, Pow2(8 * Min(w, 3)) - 2}

RECURSIVE Values(_)
RECURSIVE StructValues(_, _)
StructValues(fs, i) ==
    IF i > Len(fs) THEN {<<>>}
    ELSE {<<v>> \o rest : <<v, rest>> \in Values(fs[i]) \X StructValues(fs, i + 1)}

Values(T) ==
    CASE T.k = "uint" -> UintValues(T.w)
      [] T.k = "bool" -> BOOLEAN
      [] T.k = "h256" -> {Zeros(32), [i \in 1..32 |-> i]}
      [] T.k = "vec" -> SeqsUpTo(Values(T.t), MaxVecLen)
      [] T.k = "opt" -> {None} \cup {Some(v) : v \in Values(T.t)}
      [] T.k = "struct" -> StructValues(T.fs, 1)

WordValues == {0, 1, 4, 5, 8, 9, 12}
TailValues == {1}

RECURSIVE Words(_)
Words(ws) == IF ws = <<>> THEN <<>> ELSE encode_length(ws[1]) \o Words(Tail(ws))

ByteInputs ==
    {Words(ws) \o tl : <<ws, tl>> \in SeqsUpTo(WordValues, MaxWords) \X SeqsUpTo(TailValues, MaxTail)}

MaxPrimitiveLen == 33   \* length of the byte strings decoded as primitives

\* the fixed-width primitives
PrimitiveTypes == {U8, U16, U32, U64, BoolT, H256T, U128, U256}

PrimitiveBytes ==
    {[i \in 1..n |-> IF i = 1 THEN a ELSE IF i = 2 THEN b ELSE 0] :
        <<n, a, b>> \in (0..MaxPrimitiveLen) \X {0, 1, 2, 255} \X {0, 7}}

ValueInput(T, v) == [kind |-> "value", ty |-> T, v |-> v]
BytesInput(T, b) == [kind |-> "bytes", ty |-> T, bytes |-> b]

CodecInit ==
    /\ \/ \E T \in RoundTripTypes : \E v \in Values(T) : sz_in = ValueInput(T, v)
       \/ \E T \in DecodeTypes : \E b \in ByteInputs : sz_in = BytesInput(T, b)
       \/ \E T \in PrimitiveTypes : \E b \in PrimitiveBytes : sz_in = BytesInput(T, b)
    /\ sz_enc = Pending
    /\ sz_dec = Pending

CodecIdle ==
    /\ sz_in = [kind |-> "none"]
    /\ sz_enc = Pending
    /\ sz_dec = Pending

\* v.as_ssz_bytes() of the value handed in, or of the value just decoded
AsSszBytes ==
    /\ IsPending(sz_enc)
    /\ \/ /\ sz_in.kind = "value"
          /\ sz_enc' = Ok(as_ssz_bytes(sz_in.ty, sz_in.v))
       \/ /\ sz_in.kind = "bytes"
          /\ IsOk(sz_dec)
          /\ sz_enc' = Ok(as_ssz_bytes(sz_in.ty, sz_dec.v))
    /\ UNCHANGED <<sz_in, sz_dec, not_sz_vars>>

\* T::from_ssz_bytes of the bytes handed in, or of the bytes just encoded
FromSszBytes ==
    /\ IsPending(sz_dec)
    /\ \/ /\ sz_in.kind = "bytes"
          /\ sz_dec' = from_ssz_bytes(sz_in.ty, sz_in.bytes)
       \/ /\ sz_in.kind = "value"
          /\ IsOk(sz_enc)
          /\ sz_dec' = from_ssz_bytes(sz_in.ty, sz_enc.v)
    /\ UNCHANGED <<sz_in, sz_enc, not_sz_vars>>

(***************************************************************************)
(* SszEncoder: container, then append calls, then finalize                 *)
(***************************************************************************)
MaxHead == 12           \* num_fixed_bytes handed to container
MaxAppends == 3         \* append calls on one encoder

\* <<type, value>> of the items handed to append
EncoderItems ==
    {<<U8, 7>>, <<U16, 258>>, <<FixedS, <<1, 2>>>>,
     <<VecT(U8), <<>>>>, <<VecT(U8), <<1, 2, 3>>>>,
     <<OptT(U8), None>>, <<VecT(VecT(U8)), <<<<5>>, <<>>>>>>}

EncoderBuffers == {<<>>, <<9, 9>>}

EncoderInit ==
    /\ enc \in {[offset |-> 0, buf |-> b, variable_bytes |-> <<>>] : b \in EncoderBuffers}
    /\ enc_log = [phase |-> "new", base |-> enc.buf, h |-> 0, items |-> <<>>]

EncoderIdle ==
    /\ enc = [offset |-> 0, buf |-> <<>>, variable_bytes |-> <<>>]
    /\ enc_log = [phase |-> "none", base |-> <<>>, h |-> 0, items |-> <<>>]

Container(num_fixed_bytes) ==
    /\ enc_log.phase = "new"
    /\ enc' = SszEncoder_container(enc.buf, num_fixed_bytes)
    /\ enc_log' = [enc_log EXCEPT !.phase = "open", !.h = num_fixed_bytes]
    /\ UNCHANGED not_enc_vars

EncAppend(item) ==
    /\ enc_log.phase = "open"
    /\ Len(enc_log.items) < MaxAppends
    /\ enc' = SszEncoder_append(enc, item[1], item[2])
    /\ enc_log' = [enc_log EXCEPT !.items = Append(@, item)]
    /\ UNCHANGED not_enc_vars

Finalize ==
    /\ enc_log.phase = "open"
    /\ enc' = SszEncoder_finalize(enc)
    /\ enc_log' = [enc_log EXCEPT !.phase = "final"]
    /\ UNCHANGED not_enc_vars

(***************************************************************************)
(* SszDecoderBuilder: register_type calls, then build.  As in the derived  *)
(* from_ssz_bytes, the first call that fails ends the sequence.            *)
(***************************************************************************)
MaxFields == 3          \* fields of the struct being decoded
MaxBuilderWords == 3    \* 4-byte words at the start of the builder's bytes
MaxBuilderTail == 1     \* bytes after the words

RegisterTypes == {U8, U32, VecT(U8)}
BuilderWordValues == {4, 8, 9, 12}

BuilderBytes ==
    {Words(ws) \o tl :
        <<ws, tl>> \in SeqsUpTo(BuilderWordValues, MaxBuilderWords)
                       \X SeqsUpTo(TailValues, MaxBuilderTail)}

BuilderFields == SeqsUpTo(RegisterTypes, MaxFields)

\* let mut builder = ssz::SszDecoderBuilder::new(bytes), in the from_ssz_bytes
\* of a struct with the fields bld_log.fields
BuilderInit ==
    /\ bld \in {SszDecoderBuilder_new(b) : b \in BuilderBytes}
    /\ bld_log \in {[phase |-> "open", fields |-> fs, registered |-> 0, res |-> Ok(<<>>)] :
                       fs \in BuilderFields}

BuilderIdle ==
    /\ bld = SszDecoderBuilder_new(<<>>)
    /\ bld_log = [phase |-> "none", fields |-> <<>>, registered |-> 0, res |-> Ok(<<>>)]

\* builder.register_type::<T>()? for the next field
RegisterType ==
    /\ bld_log.phase = "open"
    /\ bld_log.registered < Len(bld_log.fields)
    /\ LET reg == SszDecoderBuilder_register_type(bld, bld_log.fields[bld_log.registered + 1])
       IN  /\ bld' = reg.b
           /\ bld_log' = [bld_log EXCEPT !.phase = IF IsOk(reg.r) THEN "open" ELSE "failed",
                                         !.registered = @ + 1,
                                         !.res = reg.r]
    /\ UNCHANGED not_bld_vars

\* builder.build()? once every field is registered
Build ==
    /\ bld_log.phase = "open"
    /\ bld_log.registered = Len(bld_log.fields)
    /\ LET res == SszDecoderBuilder_build(bld)
       IN  bld_log' = [bld_log EXCEPT !.phase = IF IsOk(res) THEN "built" ELSE "failed",
                                      !.res = res]
    /\ UNCHANGED <<bld, not_bld_vars>>

(***************************************************************************)
(* mif_ssz_types: FixedVector<T, N> and VariableList<T, N>.  A vector or   *)
(* list is the record [ty, N, r]: the element type, the typenum N and the  *)
(* value of the last constructor call (Ok(vec) once it exists).            *)
(***************************************************************************)
OutOfBounds(i, len) == [kind |-> "OutOfBounds", i |-> i, len |-> len]

\* T::default()
DefaultValue(T) ==
    CASE T.k = "uint" -> 0
      [] T.k = "bool" -> FALSE
      [] T.k = "h256" -> Zeros(32)
      [] T.k \in {"vec", "struct"} -> <<>>
      [] T.k = "opt" -> None

FixedVector_new(N, vec) ==
    IF Len(vec) = N THEN Ok(vec) ELSE Err(OutOfBounds(Len(vec), N))

FixedVector_from_elem(N, elem) == [i \in 1..N |-> elem]

\* vec.resize_with(Self::capacity(), Default::default)
FixedVector_from(T, N, vec) ==
    [i \in 1..N |-> IF i <= Len(vec) THEN vec[i] ELSE DefaultValue(T)]

FixedVector_default == <<>>

FixedVector_from_ssz_bytes(T, N, bytes) ==
    IF bytes = <<>>
    THEN Err(InvalidByteLength(0, N * ssz_fixed_len(T)))
    ELSE IF is_ssz_fixed_len(T)
    THEN LET items_result == IF ssz_fixed_len(T) = 0
                             THEN Panic("chunk size must be non-zero")
                             ELSE DecodeChunks(T, bytes, <<>>)
         IN  IF IsOk(items_result)
             THEN IF Len(items_result.v) = N
                  THEN Ok(FixedVector_from(T, N, items_result.v))
                  ELSE Err(BytesInvalid("Wrong number of items parsed", Len(items_result.v)))
             ELSE items_result
    ELSE LET items == decode_list_of_variable_length_items(T, bytes)
         IN  IF IsOk(items) THEN Ok(FixedVector_from(T, N, items.v)) ELSE items

VariableList_new(N, vec) ==
    IF Len(vec) <= N THEN Ok(vec) ELSE Err(OutOfBounds(Len(vec), N))

VariableList_empty == <<>>

\* the result r of the call and the vec it leaves behind
VariableList_push_unchecked(N, vec, value) == [r |-> Ok(<<>>), vec |-> Append(vec, value)]

VariableList_push(N, vec, value) ==
    IF Len(vec) < N
    THEN [r |-> Ok(<<>>), vec |-> Append(vec, value)]
    ELSE [r |-> Err(OutOfBounds(Len(vec) + 1, N)), vec |-> vec]

\* vec.truncate(N::to_usize())
VariableList_from(N, vec) == SubSeq(vec, 1, Min(Len(vec), N))

VariableList_default == <<>>

VariableList_from_ssz_bytes(T, N, bytes) ==
    LET vec == from_ssz_bytes(VecT(T), bytes)
    IN  IF ~IsOk(vec) THEN vec
        ELSE LET list == VariableList_new(N, vec.v)
             IN  IF IsOk(list) THEN list
                 ELSE Err(BytesInvalid("VariableList", list.err))

\* vector[i] = value, through IndexMut / DerefMut of the inner Vec
IndexMut(vec, i, value) ==
    IF i < Len(vec) THEN Ok([vec EXCEPT ![i + 1] = value])
    ELSE Panic("index out of bounds")

MaxCapacity == 2        \* largest typenum N
MaxItems == 3           \* longest Vec handed to a constructor
MaxVectorWords == 3     \* 4-byte words of the bytes decoded
MaxVectorTail == 2      \* bytes after the words
MaxMutations == 2       \* push / index_mut calls on one value

ElementTypes == {U8, U16, VecT(U8)}
ElementValues(T) == IF T.k = "uint" THEN {0, 7} ELSE {<<>>, <<7>>}
VectorWordValues == {4, 8, 9, 12}
VectorBytes ==
    {Words(ws) \o tl :
        <<ws, tl>> \in SeqsUpTo(VectorWordValues, MaxVectorWords) \X SeqsUpTo({7}, MaxVectorTail)}

FixedVectorInit ==
    /\ \E T \in ElementTypes : \E N \in 0..MaxCapacity : fv = [ty |-> T, N |-> N, r |-> Pending]
    /\ fv_log = [op |-> "none", muts |-> 0]

FixedVectorIdle ==
    /\ fv = [ty |-> U8, N |-> 0, r |-> Pending]
    /\ fv_log = [op |-> "idle", muts |-> 0]

FixedVectorNew ==
    /\ fv_log.op = "none"
    /\ \E vec \in SeqsUpTo(ElementValues(fv.ty), MaxItems) :
          /\ fv' = [fv EXCEPT !.r = FixedVector_new(fv.N, vec)]
          /\ fv_log' = [op |-> "new", arg |-> vec, muts |-> 0]
    /\ UNCHANGED not_fv_vars

FixedVectorFromElem ==
    /\ fv_log.op = "none"
    /\ \E elem \in ElementValues(fv.ty) :
          /\ fv' = [fv EXCEPT !.r = Ok(FixedVector_from_elem(fv.N, elem))]
          /\ fv_log' = [op |-> "from_elem", arg |-> elem, muts |-> 0]
    /\ UNCHANGED not_fv_vars

FixedVectorFrom ==
    /\ fv_log.op = "none"
    /\ \E vec \in SeqsUpTo(ElementValues(fv.ty), MaxItems) :
          /\ fv' = [fv EXCEPT !.r = Ok(FixedVector_from(fv.ty, fv.N, vec))]
          /\ fv_log' = [op |-> "from", arg |-> vec, muts |-> 0]
    /\ UNCHANGED not_fv_vars

FixedVectorDefault ==
    /\ fv_log.op = "none"
    /\ fv' = [fv EXCEPT !.r = Ok(FixedVector_default)]
    /\ fv_log' = [op |-> "default", arg |-> <<>>, muts |-> 0]
    /\ UNCHANGED not_fv_vars

FixedVectorFromSszBytes ==
    /\ fv_log.op = "none"
    /\ \E bytes \in VectorBytes :
          /\ fv' = [fv EXCEPT !.r = FixedVector_from_ssz_bytes(fv.ty, fv.N, bytes)]
          /\ fv_log' = [op |-> "from_ssz_bytes", arg |-> bytes, muts |-> 0]
    /\ UNCHANGED not_fv_vars

FixedVectorIndexMut ==
    /\ IsOk(fv.r)
    /\ fv_log.muts < MaxMutations
    /\ \E i \in 0..MaxCapacity : \E value \in ElementValues(fv.ty) :
          fv' = [fv EXCEPT !.r = IndexMut(fv.r.v, i, value)]
    /\ fv_log' = [fv_log EXCEPT !.muts = @ + 1]
    /\ UNCHANGED not_fv_vars

VariableListInit ==
    /\ \E T \in ElementTypes : \E N \in 0..MaxCapacity : vl = [ty |-> T, N |-> N, r |-> Pending]
    /\ vl_log = [op |-> "none", muts |-> 0, last |-> "none"]

VariableListIdle ==
    /\ vl = [ty |-> U8, N |-> 0, r |-> Pending]
    /\ vl_log = [op |-> "idle", muts |-> 0, last |-> "none"]

VariableListNew ==
    /\ vl_log.op = "none"
    /\ \E vec \in SeqsUpTo(ElementValues(vl.ty), MaxItems) :
          /\ vl' = [vl EXCEPT !.r = VariableList_new(vl.N, vec)]
          /\ vl_log' = [op |-> "new", arg |-> vec, muts |-> 0, last |-> "new"]
    /\ UNCHANGED not_vl_vars

VariableListEmpty ==
    /\ vl_log.op = "none"
    /\ vl' = [vl EXCEPT !.r = Ok(VariableList_empty)]
    /\ vl_log' = [op |-> "empty", arg |-> <<>>, muts |-> 0, last |-> "empty"]
    /\ UNCHANGED not_vl_vars

VariableListDefault ==
    /\ vl_log.op = "none"
    /\ vl' = [vl EXCEPT !.r = Ok(VariableList_default)]
    /\ vl_log' = [op |-> "default", arg |-> <<>>, muts |-> 0, last |-> "default"]
    /\ UNCHANGED not_vl_vars

VariableListFrom ==
    /\ vl_log.op = "none"
    /\ \E vec \in SeqsUpTo(ElementValues(vl.ty), MaxItems) :
          /\ vl' = [vl EXCEPT !.r = Ok(VariableList_from(vl.N, vec))]
          /\ vl_log' = [op |-> "from", arg |-> vec, muts |-> 0, last |-> "from"]
    /\ UNCHANGED not_vl_vars

VariableListFromSszBytes ==
    /\ vl_log.op = "none"
    /\ \E bytes \in VectorBytes :
          /\ vl' = [vl EXCEPT !.r = VariableList_from_ssz_bytes(vl.ty, vl.N, bytes)]
          /\ vl_log' = [op |-> "from_ssz_bytes", arg |-> bytes, muts |-> 0,
                        last |-> "from_ssz_bytes"]
    /\ UNCHANGED not_vl_vars

\* list.push(value): the log keeps the list as it was and the value returned
Push ==
    /\ IsOk(vl.r)
    /\ vl_log.muts < MaxMutations
    /\ \E value \in ElementValues(vl.ty) :
          LET res == VariableList_push(vl.N, vl.r.v, value)
          IN  /\ vl' = [vl EXCEPT !.r = Ok(res.vec)]
              /\ vl_log' = [vl_log EXCEPT !.muts = @ + 1, !.last = "push",
                                          !.arg = [value |-> value, before |-> vl.r.v,
                                                   res |-> res.r]]
    /\ UNCHANGED not_vl_vars

VariableListIndexMut ==
    /\ IsOk(vl.r)
    /\ vl_log.muts < MaxMutations
    /\ \E i \in 0..MaxCapacity : \E value \in ElementValues(vl.ty) :
          vl' = [vl EXCEPT !.r = IndexMut(vl.r.v, i, value)]
    /\ vl_log' = [vl_log EXCEPT !.muts = @ + 1, !.last = "index_mut"]
    /\ UNCHANGED not_vl_vars

(***************************************************************************)
(* mif_ssz_types: Bitfield<Variable<N>> (BitList) and Bitfield<Fixed<N>>   *)
(* (BitVector).  A bitfield is the record [bytes, len]; a byte is a number *)
(* in 0..255.                                                              *)
(***************************************************************************)
MissingLengthInformation == [kind |-> "MissingLengthInformation"]
ExcessBits == [kind |-> "ExcessBits"]
InvalidByteCount(given, expected) ==
    [kind |-> "InvalidByteCount", given |-> given, expected |-> expected]

\* a & b, a | b and !a on u8
RECURSIVE BitAnd(_, _)
BitAnd(a, b) ==
    IF a = 0 \/ b = 0 THEN 0
    ELSE (a % 2) * (b % 2) + 2 * BitAnd(a \div 2, b \div 2)
BitOr(a, b) == a + b - BitAnd(a, b)
BitNot(a) == 255 - a

get_true_bit_at(pos) == Pow2(pos % 8)
get_false_bit_at(pos) == BitNot(get_true_bit_at(pos))
bytes_required(bits_len) == Max(1, (bits_len + 7) \div 8)

\* set as it would be with the mask 1 << (7 - i % 8)
Bitfield_set_msb_first(self, i, value) ==
    IF i < self.len /\ i \div 8 < Len(self.bytes)
    THEN LET byte == self.bytes[i \div 8 + 1]
             m == Pow2(7 - (i % 8))
             new == IF value THEN BitOr(byte, m) ELSE BitAnd(byte, BitNot(m))
         IN  [r |-> Ok(<<>>), b |-> [self EXCEPT !.bytes[i \div 8 + 1] = new]]
    ELSE [r |-> Err(OutOfBounds(i, self.len)), b |-> self]

\* the result r of the call and the bitfield b it leaves behind
Bitfield_set(self, i, value) ==
    IF i < self.len
    THEN IF i \div 8 >= Len(self.bytes)
         THEN [r |-> Err(OutOfBounds(i, self.len)), b |-> self]
         ELSE LET byte == self.bytes[i \div 8 + 1]
                  new == IF value THEN BitOr(byte, get_true_bit_at(i))
                         ELSE BitAnd(byte, get_false_bit_at(i))
              IN  [r |-> Ok(<<>>), b |-> [self EXCEPT !.bytes[i \div 8 + 1] = new]]
    ELSE [r |-> Err(OutOfBounds(i, self.len)), b |-> self]

Bitfield_get(self, i) ==
    IF i < self.len
    THEN IF i \div 8 >= Len(self.bytes) THEN Err(OutOfBounds(i, self.len))
         ELSE Ok(BitAnd(self.bytes[i \div 8 + 1], get_true_bit_at(i)) > 0)
    ELSE Err(OutOfBounds(i, self.len))

\* variant: the bits above bits_len in the last byte are not examined
Bitfield_from_raw_bytes_unmasked(bytes, bits_len) ==
    IF bits_len = 0
    THEN IF bytes = <<0>> THEN Ok([bytes |-> bytes, len |-> 0]) ELSE Err(ExcessBits)
    ELSE IF Len(bytes) # bytes_required(bits_len)
    THEN Err(InvalidByteCount(Len(bytes), bytes_required(bits_len)))
    ELSE Ok([bytes |-> bytes, len |-> bits_len])

Bitfield_from_raw_bytes(bytes, bits_len) ==
    IF bits_len = 0
    THEN IF bytes = <<0>> THEN Ok([bytes |-> bytes, len |-> 0]) ELSE Err(ExcessBits)
    ELSE IF Len(bytes) # bytes_required(bits_len)
    THEN Err(InvalidByteCount(Len(bytes), bytes_required(bits_len)))
    ELSE LET inverse_mask == 255 \div Pow2((8 - (bits_len % 8)) % 8)
             mask == BitNot(inverse_mask)
         IN  IF BitAnd(bytes[Len(bytes)], mask) = 0
             THEN Ok([bytes |-> bytes, len |-> bits_len])
             ELSE Err(ExcessBits)

\* Some(index of the highest bit set), or None
Bitfield_highest_set_bit(self) ==
    LET set == {i \in 1..Len(self.bytes) : self.bytes[i] > 0}
    IN  IF set = {} THEN None
        ELSE LET i == SetMax(set)
             IN  Some((i - 1) * 8 + FloorLog2(self.bytes[i]))

Bitfield_difference(self, other) ==
    [self EXCEPT !.bytes =
        [i \in 1..Len(self.bytes) |->
            IF i <= Len(other.bytes) THEN BitAnd(self.bytes[i], BitNot(other.bytes[i]))
            ELSE self.bytes[i]]]

\* for i in (n..bits_len).rev() { self.set(i, self.get(i - n)?)?; }, from i down
RECURSIVE ShiftLoop(_, _, _)
ShiftLoop(self, i, n) ==
    IF i < n THEN [r |-> Ok(<<>>), b |-> self]
    ELSE LET bit == Bitfield_get(self, i - n)
         IN  IF ~IsOk(bit) THEN [r |-> bit, b |-> self]
             ELSE LET res == Bitfield_set(self, i, bit.v)
                  IN  IF ~IsOk(res.r) THEN res ELSE ShiftLoop(res.b, i - 1, n)

\* for i in 0..n { self.set(i, false).unwrap(); }, from i up
RECURSIVE ClearLoop(_, _, _)
ClearLoop(self, i, n) ==
    IF i >= n THEN [r |-> Ok(<<>>), b |-> self]
    ELSE LET res == Bitfield_set(self, i, FALSE)
         IN  IF ~IsOk(res.r) THEN [r |-> Panic("called unwrap on an Err value"), b |-> res.b]
             ELSE ClearLoop(res.b, i + 1, n)

\* shift_up with the first loop running upwards: for i in n..bits_len
RECURSIVE ShiftLoopAscending(_, _, _)
ShiftLoopAscending(self, i, n) ==
    IF i >= self.len THEN [r |-> Ok(<<>>), b |-> self]
    ELSE LET bit == Bitfield_get(self, i - n)
         IN  IF ~IsOk(bit) THEN [r |-> bit, b |-> self]
             ELSE LET res == Bitfield_set(self, i, bit.v)
                  IN  IF ~IsOk(res.r) THEN res ELSE ShiftLoopAscending(res.b, i + 1, n)

Bitfield_shift_up_ascending(self, n) ==
    IF n <= self.len
    THEN LET moved == ShiftLoopAscending(self, n, n)
         IN  IF ~IsOk(moved.r) THEN moved ELSE ClearLoop(moved.b, 0, n)
    ELSE [r |-> Err(OutOfBounds(n, self.len)), b |-> self]

Bitfield_shift_up(self, n) ==
    IF n <= self.len
    THEN LET moved == ShiftLoop(self, self.len - 1, n)
         IN  IF ~IsOk(moved.r) THEN moved ELSE ClearLoop(moved.b, 0, n)
    ELSE [r |-> Err(OutOfBounds(n, self.len)), b |-> self]

Variable_with_capacity(N, bits_len) ==
    IF bits_len <= N
    THEN Ok([bytes |-> Zeros(bytes_required(bits_len)), len |-> bits_len])
    ELSE Err(OutOfBounds(bits_len, N))

\* into_bytes that keeps the byte count of the bits, without room for the marker
Variable_into_bytes_no_resize(self) ==
    LET bits_len == self.len
        bitfield == Bitfield_from_raw_bytes(self.bytes, bits_len + 1)
    IN  IF ~IsOk(bitfield) THEN Panic("internal error: entered unreachable code")
        ELSE LET res == Bitfield_set(bitfield.v, bits_len, TRUE)
             IN  IF ~IsOk(res.r) THEN Panic("bits_len must fall in bounds of the bitfield")
                 ELSE Ok(res.b.bytes)

Variable_into_bytes(self) ==
    LET bits_len == self.len
        bytes == Resize(self.bytes, bytes_required(bits_len + 1))
        bitfield == Bitfield_from_raw_bytes(bytes, bits_len + 1)
    IN  IF ~IsOk(bitfield) THEN Panic("internal error: entered unreachable code")
        ELSE LET res == Bitfield_set(bitfield.v, bits_len, TRUE)
             IN  IF ~IsOk(res.r) THEN Panic("bits_len must fall in bounds of the bitfield")
                 ELSE Ok(res.b.bytes)

Variable_from_bytes(N, bytes) ==
    LET bytes_len == Len(bytes)
        bitfield == Bitfield_from_raw_bytes(bytes, bytes_len * 8)
    IN  IF ~IsOk(bitfield) THEN bitfield
        ELSE LET highest == Bitfield_highest_set_bit(bitfield.v)
             IN  IF ~highest.some THEN Err(MissingLengthInformation)
                 ELSE LET bits_len == highest.v
                      IN  IF bits_len \div 8 + 1 # bytes_len
                          THEN Err(InvalidByteCount(bytes_len, bits_len \div 8 + 1))
                          ELSE IF bits_len <= N
                          THEN LET res == Bitfield_set(bitfield.v, bits_len, FALSE)
                               IN  IF ~IsOk(res.r) THEN Panic("Length bit has been found")
                                   ELSE Bitfield_from_raw_bytes(
                                            SubSeq(res.b.bytes, 1,
                                                   Min(Len(res.b.bytes), bytes_required(bits_len))),
                                            bits_len)
                          ELSE Err(OutOfBounds(bits_len, N))

Variable_intersection(N, self, other) ==
    LET result == Variable_with_capacity(N, Min(self.len, other.len))
    IN  IF ~IsOk(result) THEN Panic("Min length always l")
        ELSE IF Len(result.v.bytes) > Min(Len(self.bytes), Len(other.bytes))
        THEN Panic("index out of bounds")
        ELSE Ok([result.v EXCEPT !.bytes =
                    [i \in 1..Len(result.v.bytes) |-> BitAnd(self.bytes[i], other.bytes[i])]])

Variable_union(N, self, other) ==
    LET result == Variable_with_capacity(N, Max(self.len, other.len))
    IN  IF ~IsOk(result) THEN Panic("Max length will always be less than N")
        ELSE Ok([result.v EXCEPT !.bytes =
                    [i \in 1..Len(result.v.bytes) |->
                        BitOr(IF i <= Len(self.bytes) THEN self.bytes[i] ELSE 0,
                              IF i <= Len(other.bytes) THEN other.bytes[i] ELSE 0)]])

Fixed_new(N) == [bytes |-> Zeros(bytes_required(N)), len |-> N]

Fixed_from_bytes(N, bytes) == Bitfield_from_raw_bytes(bytes, N)

MaxBitLen == 9          \* largest typenum N of a bitfield
MaxBitfieldBytes == 2   \* longest byte string handed to from_bytes / from_raw_bytes

Capacities == {0, 2, MaxBitLen}
FirstByteValues == {0, 1, 2, 3, 4, 5, 6, 7, 128, 255}
NextByteValues == {0, 1, 255}
BitfieldBytes ==
    {<<>>} \cup {<<a>> \o rest :
                    <<a, rest>> \in FirstByteValues \X SeqsUpTo(NextByteValues, MaxBitfieldBytes - 1)}
BitIndices == 0..(MaxBitLen + 1)
RawBitLens == 0..(8 * MaxBitfieldBytes + 1)

\* the bitfields handed to union, intersection and difference as `other`
OtherBitfields(kind, N) ==
    {[bytes |-> bytes, len |-> len] :
        <<bytes, len>> \in
            {<<b, l>> \in SeqsUpTo({0, 5, 255}, MaxBitfieldBytes) \X (0..N) :
                /\ IsOk(Bitfield_from_raw_bytes(b, l))
                /\ kind = "Fixed" => l = N}}

BitfieldInit ==
    /\ \E kind \in {"Variable", "Fixed"} : \E N \in Capacities :
          bf = [kind |-> kind, N |-> N, r |-> Pending]
    /\ bf_log = [op |-> "none", steps |-> 0]

BitfieldIdle ==
    /\ bf = [kind |-> "Variable", N |-> 0, r |-> Pending]
    /\ bf_log = [op |-> "idle", steps |-> 0]

\* what a constructor leaves in the log
Constructed(op, arg) == [op |-> op, arg |-> arg, steps |-> 0]

\* what a call on the bitfield leaves in the log: the bitfield as it was,
\* the argument and the value returned
Called(op, arg, res) ==
    [op |-> op, arg |-> arg, before |-> bf.r.v, res |-> res, steps |-> bf_log.steps + 1]

\* one call is made on each bitfield constructed
Callable == IsOk(bf.r) /\ bf_log.steps = 0

WithCapacity ==
    /\ bf_log.op = "none" /\ bf.kind = "Variable"
    /\ \E bits_len \in BitIndices :
          /\ bf' = [bf EXCEPT !.r = Variable_with_capacity(bf.N, bits_len)]
          /\ bf_log' = Constructed("with_capacity", bits_len)
    /\ UNCHANGED not_bf_vars

FixedNew ==
    /\ bf_log.op = "none" /\ bf.kind = "Fixed"
    /\ bf' = [bf EXCEPT !.r = Ok(Fixed_new(bf.N))]
    /\ bf_log' = Constructed("new", <<>>)
    /\ UNCHANGED not_bf_vars

\* from_bytes of bytes handed in, or of the bytes into_bytes returned
VariableFromBytes ==
    /\ bf.kind = "Variable"
    /\ \/ /\ bf_log.op = "none"
          /\ \E bytes \in BitfieldBytes :
                /\ bf' = [bf EXCEPT !.r = Variable_from_bytes(bf.N, bytes)]
                /\ bf_log' = Constructed("from_bytes", bytes)
       \/ /\ bf_log.op = "into_bytes" /\ IsOk(bf_log.res)
          /\ bf' = [bf EXCEPT !.r = Variable_from_bytes(bf.N, bf_log.res.v)]
          /\ bf_log' = [bf_log EXCEPT !.op = "round_trip"]
    /\ UNCHANGED not_bf_vars

FixedFromBytes ==
    /\ bf_log.op = "none" /\ bf.kind = "Fixed"
    /\ \E bytes \in BitfieldBytes :
          /\ bf' = [bf EXCEPT !.r = Fixed_from_bytes(bf.N, bytes)]
          /\ bf_log' = Constructed("from_bytes", bytes)
    /\ UNCHANGED not_bf_vars

FromRawBytes ==
    /\ bf_log.op = "none"
    /\ \E bytes \in BitfieldBytes : \E bits_len \in RawBitLens :
          /\ bf' = [bf EXCEPT !.r = Bitfield_from_raw_bytes(bytes, bits_len)]
          /\ bf_log' = Constructed("from_raw_bytes", <<bytes, bits_len>>)
    /\ UNCHANGED not_bf_vars

IntoBytes ==
    /\ Callable /\ bf.kind = "Variable"
    /\ bf_log' = Called("into_bytes", <<>>, Variable_into_bytes(bf.r.v))
    /\ bf' = [bf EXCEPT !.r = Pending]
    /\ UNCHANGED not_bf_vars

Set ==
    /\ Callable
    /\ \E i \in BitIndices : \E value \in BOOLEAN :
          LET res == Bitfield_set(bf.r.v, i, value)
          IN  /\ bf' = [bf EXCEPT !.r = Ok(res.b)]
              /\ bf_log' = Called("set", <<i, value>>, res.r)
    /\ UNCHANGED not_bf_vars

Get ==
    /\ Callable
    /\ \E i \in BitIndices : bf_log' = Called("get", i, Bitfield_get(bf.r.v, i))
    /\ UNCHANGED <<bf, not_bf_vars>>

ShiftUp ==
    /\ Callable
    /\ \E n \in BitIndices :
          LET res == Bitfield_shift_up(bf.r.v, n)
          IN  /\ bf' = [bf EXCEPT !.r = IF IsPanic(res.r) THEN res.r ELSE Ok(res.b)]
              /\ bf_log' = Called("shift_up", n, res.r)
    /\ UNCHANGED not_bf_vars

Difference ==
    /\ Callable
    /\ \E other \in OtherBitfields(bf.kind, bf.N) :
          /\ bf' = [bf EXCEPT !.r = Ok(Bitfield_difference(bf.r.v, other))]
          /\ bf_log' = Called("difference", other, Ok(<<>>))
    /\ UNCHANGED not_bf_vars

Union ==
    /\ Callable /\ bf.kind = "Variable"
    /\ \E other \in OtherBitfields(bf.kind, bf.N) :
          /\ bf' = [bf EXCEPT !.r = Variable_union(bf.N, bf.r.v, other)]
          /\ bf_log' = Called("union", other, Ok(<<>>))
    /\ UNCHANGED not_bf_vars

Intersection ==
    /\ Callable /\ bf.kind = "Variable"
    /\ \E other \in OtherBitfields(bf.kind, bf.N) :
          /\ bf' = [bf EXCEPT !.r = Variable_intersection(bf.N, bf.r.v, other)]
          /\ bf_log' = Called("intersection", other, Ok(<<>>))
    /\ UNCHANGED not_bf_vars

(***************************************************************************)
(* utils/ssz_new/src/utils.rs: the Decoder of the ssz_new crate, and the   *)
(* type information of utils/ssz_new/src/decode.rs it reads through        *)
(* T::is_variable_size, T::fixed_length and T::deserialize.                *)
(***************************************************************************)
Error_InvalidByteLength(got, required) ==
    [kind |-> "InvalidByteLength", got |-> got, required |-> required]
Error_NoOffsetsLeft == [kind |-> "NoOffsetsLeft"]

Deserialize_is_variable_size(T) == T.k = "vec"

\* the width of an unsigned integer; BYTES_PER_LENGTH_OFFSET by default
Deserialize_fixed_length(T) ==
    IF T.k = "uint" THEN T.w ELSE BYTES_PER_LENGTH_OFFSET

\* for chunk in bytes.chunks(fixed_len) { result.push(T::deserialize(chunk)?) }
RECURSIVE Deserialize_deserialize(_, _)
RECURSIVE DeserializeChunks(_, _, _)
DeserializeChunks(T, bytes, acc) ==
    IF bytes = <<>> THEN Ok(acc)
    ELSE LET n == Min(Deserialize_fixed_length(T), Len(bytes))
             el == Deserialize_deserialize(T, SubSeq(bytes, 1, n))
         IN  IF IsOk(el) THEN DeserializeChunks(T, SliceFrom(bytes, n), Append(acc, el.v))
             ELSE el

\* unsigned integers and vectors of them
Deserialize_deserialize(T, bytes) ==
    IF T.k = "uint"
    THEN IF Len(bytes) = Deserialize_fixed_length(T)
         THEN Ok(from_le_bytes(bytes))
         ELSE Err(InvalidByteLength(Len(bytes), Deserialize_fixed_length(T)))
    ELSE LET fixed_len == Deserialize_fixed_length(T.t)
         IN  IF bytes = <<>> THEN Ok(<<>>)
             ELSE IF Len(bytes) % fixed_len = 0
             THEN DeserializeChunks(T.t, bytes, <<>>)
             ELSE Err(InvalidByteLength(Len(bytes), Len(bytes) \div fixed_len + 1))

deserialize_offset(bytes) ==
    IF Len(bytes) = BYTES_PER_LENGTH_OFFSET
    THEN Ok(from_le_bytes(bytes))
    ELSE Err(Error_InvalidByteLength(Len(bytes), BYTES_PER_LENGTH_OFFSET))

Decoder_for_bytes(bytes) ==
    [bytes |-> bytes, registration_offset |-> 0, fixed_part_offset |-> 0,
     offsets |-> <<>>, current_offset_index |-> 0]

\* the value returned (r) and the decoder after the call (d)
Decoder_next_type(self, T) ==
    LET slot == SliceGet(self.bytes, self.registration_offset,
                         self.registration_offset + BYTES_PER_LENGTH_OFFSET)
        offset == IF slot.some THEN deserialize_offset(slot.v)
                  ELSE Err(Error_InvalidByteLength(Len(self.bytes),
                              self.registration_offset + BYTES_PER_LENGTH_OFFSET))
        advanced == [self EXCEPT !.registration_offset = @ + Deserialize_fixed_length(T)]
    IN  IF Deserialize_is_variable_size(T)
        THEN IF IsOk(offset)
             THEN [r |-> Ok(<<>>),
                   d |-> [advanced EXCEPT !.offsets = Append(@, offset.v)]]
             ELSE [r |-> offset, d |-> self]
        ELSE [r |-> Ok(<<>>), d |-> advanced]

\* the value returned (r) and the decoder after the call (d)
Decoder_deserialize_next(self, T) ==
    LET current_offset == IF self.current_offset_index < Len(self.offsets)
                          THEN Ok(self.offsets[self.current_offset_index + 1])
                          ELSE Err(Error_NoOffsetsLeft)
        end_offset == IF self.current_offset_index + 1 < Len(self.offsets)
                       THEN self.offsets[self.current_offset_index + 2]
                       ELSE Len(self.bytes)
        result ==
            IF Deserialize_is_variable_size(T)
            THEN IF ~IsOk(current_offset) THEN current_offset
                 ELSE LET got == SliceGet(self.bytes, current_offset.v, end_offset)
                      IN  IF got.some THEN Deserialize_deserialize(T, got.v)
                          ELSE Err(Error_InvalidByteLength(Len(self.bytes), end_offset))
            ELSE LET got == SliceGet(self.bytes, self.fixed_part_offset,
                                     self.fixed_part_offset + Deserialize_fixed_length(T))
                 IN  IF got.some THEN Deserialize_deserialize(T, got.v)
                     ELSE Err(Error_InvalidByteLength(Len(self.bytes),
                                 self.fixed_part_offset + Deserialize_fixed_length(T)))
    IN  IF IsOk(result)
        THEN [r |-> result,
              d |-> [self EXCEPT
                       !.current_offset_index =
                           IF Deserialize_is_variable_size(T) THEN @ + 1 ELSE @,
                       !.fixed_part_offset = @ + Deserialize_fixed_length(T)]]
        ELSE [r |-> result, d |-> self]

(***************************************************************************)
(* A Decoder over the bytes of a container: next_type once per field in    *)
(* declaration order, then deserialize_next for the next unread fixed-     *)
(* length field or the next unread variable-length field, in any order.    *)
(***************************************************************************)
MaxDecoderFields == 3   \* fields of the container
MaxCut == 1             \* bytes missing at the end of the input

DecoderTypes == {U8, U16, VecT(U8)}

DecoderValues(T) ==
    IF T.k = "uint" THEN {1, Pow2(8 * T.w) - 1} ELSE {<<>>, <<3, 2, 3>>}

RECURSIVE ValueTuples(_)
ValueTuples(fs) ==
    IF fs = <<>> THEN {<<>>}
    ELSE {<<v>> \o rest : <<v, rest>> \in DecoderValues(Head(fs)) \X ValueTuples(Tail(fs))}

RECURSIVE FieldsHeadLength(_)
FieldsHeadLength(fs) ==
    IF fs = <<>> THEN 0 ELSE Deserialize_fixed_length(Head(fs)) + FieldsHeadLength(Tail(fs))

\* the head of the container: each fixed-length field in place, the offset
\* of its payload for each variable-length field (a Vec<u8> is its own payload)
RECURSIVE FieldsHead(_, _, _)
FieldsHead(fs, vs, offset) ==
    IF fs = <<>> THEN <<>>
    ELSE IF Deserialize_is_variable_size(Head(fs))
    THEN to_le_bytes(offset, BYTES_PER_LENGTH_OFFSET)
            \o FieldsHead(Tail(fs), Tail(vs), offset + Len(Head(vs)))
    ELSE to_le_bytes(Head(vs), Head(fs).w) \o FieldsHead(Tail(fs), Tail(vs), offset)

RECURSIVE FieldsPayloads(_, _)
FieldsPayloads(fs, vs) ==
    IF fs = <<>> THEN <<>>
    ELSE (IF Deserialize_is_variable_size(Head(fs)) THEN Head(vs) ELSE <<>>)
            \o FieldsPayloads(Tail(fs), Tail(vs))

FieldsBytes(fs, vs) ==
    FieldsHead(fs, vs, FieldsHeadLength(fs)) \o FieldsPayloads(fs, vs)

DecoderInit ==
    \E m \in 1..MaxDecoderFields : \E fs \in [1..m -> DecoderTypes] :
      \E vs \in ValueTuples(fs) : \E cut \in 0..MaxCut :
        LET bytes == FieldsBytes(fs, vs)
        IN  /\ cut <= Len(bytes)
            /\ dcd = Decoder_for_bytes(SubSeq(bytes, 1, Len(bytes) - cut))
            /\ dcd_log = [phase |-> "register", fields |-> fs, values |-> vs,
                          cut |-> cut, registered |-> 0, done |-> {},
                          last |-> [op |-> "for_bytes"]]

DecoderIdle ==
    /\ dcd = Decoder_for_bytes(<<>>)
    /\ dcd_log = [phase |-> "idle"]

\* decoder.next_type::<T>() for the next field of the declaration
NextType ==
    /\ dcd_log.phase = "register"
    /\ LET T == dcd_log.fields[dcd_log.registered + 1]
           res == Decoder_next_type(dcd, T)
       IN  /\ dcd' = res.d
           /\ dcd_log' =
                [dcd_log EXCEPT
                   !.registered = IF IsOk(res.r) THEN @ + 1 ELSE @,
                   !.phase = IF ~IsOk(res.r) THEN "failed"
                             ELSE IF dcd_log.registered + 1 = Len(dcd_log.fields)
                             THEN "read" ELSE "register",
                   !.last = [op |-> "next_type", r |-> res.r]]
    /\ UNCHANGED not_dc_vars

\* the fields not read yet, fixed-length or variable-length
Unread(variable) ==
    {i \in 1..Len(dcd_log.fields) :
        i \notin dcd_log.done /\ Deserialize_is_variable_size(dcd_log.fields[i]) = variable}

\* the first unread fixed-length field and the first unread variable-length one
NextUnread ==
    {i \in 1..Len(dcd_log.fields) : \E variable \in BOOLEAN :
        i \in Unread(variable) /\ \A j \in Unread(variable) : i <= j}

\* decoder.deserialize_next::<T>() with T the type of field i
DeserializeNext ==
    /\ dcd_log.phase = "read"
    /\ \E i \in NextUnread :
         LET T == dcd_log.fields[i]
             res == Decoder_deserialize_next(dcd, T)
         IN  /\ dcd' = res.d
             /\ dcd_log' =
                  [dcd_log EXCEPT
                     !.done = IF IsOk(res.r) THEN @ \cup {i} ELSE @,
                     !.last = [op |-> "deserialize_next", i |-> i, r |-> res.r,
                               before |-> dcd]]
    /\ UNCHANGED not_dc_vars

(***************************************************************************)
(* transition_functions/src/process_slot.rs: process_slots and             *)
(* process_slot on a BeaconState.  hash_tree_root, signed_root and         *)
(* process_epoch are defined outside this file: a root is the term of what *)
(* it was computed from, process_epoch is the call alone.                  *)
(***************************************************************************)
MaxSlot == 9            \* largest slot of a state and of a target

\* T::SlotsPerEpoch and T::SlotsPerHistoricalRoot of the configurations
SlotsPerEpochValues == {1, 3, 8}
SlotsPerHistoricalRootValues == {4}

ZeroRoot == <<"zero">>

\* the root of the state as it is before process_slot at its slot; what
\* process_epoch did so far is part of the state
hash_tree_root(self) == <<"state_root", self.slot, self.epochs>>
signed_root(header) == <<"block_root", header.state_root>>

\* the state after process_slot
process_slot(self) ==
    LET previous_state_root == hash_tree_root(self)
        i == self.slot % self.SlotsPerHistoricalRoot
        header == IF self.latest_block_header.state_root = ZeroRoot
                  THEN [state_root |-> previous_state_root]
                  ELSE self.latest_block_header
        previous_block_root == signed_root(header)
    IN  [self EXCEPT !.state_roots[i] = previous_state_root,
                     !.latest_block_header = header,
                     !.block_roots[i] = previous_block_root]

\* variant: the epoch is processed at its first slot, not at its last
epoch_ends_at_first_slot(self) == self.slot % self.SlotsPerEpoch = 0

\* (state.slot + 1) % T::SlotsPerEpoch::U64 == 0
epoch_ends(self) == (self.slot + 1) % self.SlotsPerEpoch = 0

BeaconState(slot, spe, sphr) ==
    [slot |-> slot, SlotsPerEpoch |-> spe, SlotsPerHistoricalRoot |-> sphr,
     epochs |-> 0,
     state_roots |-> [i \in 0..(sphr - 1) |-> ZeroRoot],
     block_roots |-> [i \in 0..(sphr - 1) |-> ZeroRoot],
     latest_block_header |-> [state_root |-> ZeroRoot]]

SlotsInit ==
    /\ \E slot \in 0..MaxSlot : \E spe \in SlotsPerEpochValues :
         \E sphr \in SlotsPerHistoricalRootValues :
            beacon = BeaconState(slot, spe, sphr)
    /\ \E slot \in 0..MaxSlot :
         slots = [pc |-> "start", slot |-> slot, initial |-> beacon, calls |-> <<>>]

SlotsIdle ==
    /\ beacon = BeaconState(0, 1, 1)
    /\ slots = [pc |-> "idle"]

\* process_slots(state, slot): assert!(state.slot <= slot)
ProcessSlots ==
    /\ slots.pc = "start"
    /\ slots' = [slots EXCEPT !.pc = IF beacon.slot <= slots.slot THEN "while"
                                     ELSE "panicked"]
    /\ UNCHANGED <<beacon, not_sl_vars>>

\* while state.slot < slot
WhileSlot ==
    /\ slots.pc = "while"
    /\ slots' = [slots EXCEPT !.pc = IF beacon.slot < slots.slot THEN "process_slot"
                                     ELSE "returned"]
    /\ UNCHANGED <<beacon, not_sl_vars>>

ProcessSlot ==
    /\ slots.pc = "process_slot"
    /\ beacon' = process_slot(beacon)
    /\ slots' = [slots EXCEPT !.pc = IF epoch_ends(process_slot(beacon)) THEN "process_epoch"
                                     ELSE "increment",
                              !.calls = Append(@, <<"process_slot", beacon.slot>>)]
    /\ UNCHANGED not_sl_vars

ProcessEpoch ==
    /\ slots.pc = "process_epoch"
    /\ beacon' = [beacon EXCEPT !.epochs = @ + 1]
    /\ slots' = [slots EXCEPT !.pc = "increment",
                              !.calls = Append(@, <<"process_epoch", beacon.slot>>)]
    /\ UNCHANGED not_sl_vars

\* state.slot += 1
IncrementSlot ==
    /\ slots.pc = "increment"
    /\ beacon' = [beacon EXCEPT !.slot = @ + 1]
    /\ slots' = [slots EXCEPT !.pc = "while"]
    /\ UNCHANGED not_sl_vars

(***************************************************************************)
(* Specifications, one per component; the other components stay idle.      *)
(***************************************************************************)
InitProof == ProofInit /\ MerkleIdle /\ CodecIdle /\ EncoderIdle
    /\ BuilderIdle /\ FixedVectorIdle /\ VariableListIdle /\ BitfieldIdle
    /\ DecoderIdle /\ SlotsIdle
NextProof == VerifyMerkleProof \/ VerifyMerkleMultiproof
SpecProof == InitProof /\ [][NextProof]_vars

InitMerkle == MerkleInit /\ ProofIdle /\ CodecIdle /\ EncoderIdle
    /\ BuilderIdle /\ FixedVectorIdle /\ VariableListIdle /\ BitfieldIdle
    /\ DecoderIdle /\ SlotsIdle
NextMerkle == MerkleRoot
SpecMerkle == InitMerkle /\ [][NextMerkle]_vars

InitCodec == CodecInit /\ ProofIdle /\ MerkleIdle /\ EncoderIdle
    /\ BuilderIdle /\ FixedVectorIdle /\ VariableListIdle /\ BitfieldIdle
    /\ DecoderIdle /\ SlotsIdle
NextCodec == AsSszBytes \/ FromSszBytes
SpecCodec == InitCodec /\ [][NextCodec]_vars

InitEncoder == EncoderInit /\ ProofIdle /\ MerkleIdle /\ CodecIdle
    /\ BuilderIdle /\ FixedVectorIdle /\ VariableListIdle /\ BitfieldIdle
    /\ DecoderIdle /\ SlotsIdle
NextEncoder ==
    \/ \E h \in 0..MaxHead : Container(h)
    \/ \E item \in EncoderItems : EncAppend(item)
    \/ Finalize
SpecEncoder == InitEncoder /\ [][NextEncoder]_vars

InitBuilder == BuilderInit /\ ProofIdle /\ MerkleIdle /\ CodecIdle
    /\ EncoderIdle /\ FixedVectorIdle /\ VariableListIdle /\ BitfieldIdle
    /\ DecoderIdle /\ SlotsIdle
NextBuilder == RegisterType \/ Build
SpecBuilder == InitBuilder /\ [][NextBuilder]_vars

InitFixedVector == FixedVectorInit /\ ProofIdle /\ MerkleIdle /\ CodecIdle
    /\ EncoderIdle /\ BuilderIdle /\ VariableListIdle /\ BitfieldIdle
    /\ DecoderIdle /\ SlotsIdle
NextFixedVector ==
    \/ FixedVectorNew \/ FixedVectorFromElem \/ FixedVectorFrom \/ FixedVectorDefault
    \/ FixedVectorFromSszBytes \/ FixedVectorIndexMut
SpecFixedVector == InitFixedVector /\ [][NextFixedVector]_vars

InitVariableList == VariableListInit /\ ProofIdle /\ MerkleIdle /\ CodecIdle
    /\ EncoderIdle /\ BuilderIdle /\ FixedVectorIdle /\ BitfieldIdle
    /\ DecoderIdle /\ SlotsIdle
NextVariableList ==
    \/ VariableListNew \/ VariableListEmpty \/ VariableListDefault \/ VariableListFrom
    \/ VariableListFromSszBytes \/ Push \/ VariableListIndexMut
SpecVariableList == InitVariableList /\ [][NextVariableList]_vars

InitBitfield == BitfieldInit /\ ProofIdle /\ MerkleIdle /\ CodecIdle
    /\ EncoderIdle /\ BuilderIdle /\ FixedVectorIdle /\ VariableListIdle
    /\ DecoderIdle /\ SlotsIdle
NextBitfield ==
    \/ WithCapacity \/ FixedNew \/ VariableFromBytes \/ FixedFromBytes \/ FromRawBytes
    \/ IntoBytes \/ Set \/ Get \/ ShiftUp \/ Difference \/ Union \/ Intersection
SpecBitfield == InitBitfield /\ [][NextBitfield]_vars

InitDecoder == DecoderInit /\ ProofIdle /\ MerkleIdle /\ CodecIdle
    /\ EncoderIdle /\ BuilderIdle /\ FixedVectorIdle /\ VariableListIdle
    /\ BitfieldIdle /\ SlotsIdle
NextDecoder == NextType \/ DeserializeNext
SpecDecoder == InitDecoder /\ [][NextDecoder]_vars

InitSlots == SlotsInit /\ ProofIdle /\ MerkleIdle /\ CodecIdle /\ EncoderIdle
    /\ BuilderIdle /\ FixedVectorIdle /\ VariableListIdle /\ BitfieldIdle
    /\ DecoderIdle
NextSlots == ProcessSlots \/ WhileSlot \/ ProcessSlot \/ ProcessEpoch \/ IncrementSlot
SpecSlots == InitSlots /\ [][NextSlots]_vars

\* process_slots runs to its end: no step of it waits for anything
SpecSlotsFair == SpecSlots /\ WF_vars(NextSlots)

Init == InitProof \/ InitMerkle \/ InitCodec \/ InitEncoder \/ InitBuilder
    \/ InitFixedVector \/ InitVariableList \/ InitBitfield \/ InitDecoder
    \/ InitSlots
Next == NextProof \/ NextMerkle \/ NextCodec \/ NextEncoder \/ NextBuilder
    \/ NextFixedVector \/ NextVariableList \/ NextBitfield \/ NextDecoder
    \/ NextSlots
Spec == Init /\ [][Next]_vars

(***************************************************************************)
(* Properties of the proof subsystem                                       *)
(***************************************************************************)
SingleDone == mp_in.op = "single" /\ ~IsPending(mp_out)
MultiDone == mp_in.op = "multi" /\ ~IsPending(mp_out)

\* the node accumulated by calculate_merkle_root after n proof entries
Accumulated(leaf, proof, index, n) == FoldProof(leaf, SubSeq(proof, 1, n), index, 1)

\* indices tried in place of the claimed one
OtherIndices(k) ==
    ((1..(Pow2(MaxDepth + 2) - 1)) \cup DeepIndices \cup {Pow2(DeepDepth) + 2}) \ {k}

OtherValues(v) == (AltValues(mp_in.tree) \cup {OutsideValue}) \ {v}

DifferingLevels(k) ==
    {i \in 0..(Len(mp_in.proof) - 1) :
        get_generalized_index_bit(k, i) # get_generalized_index_bit(mp_in.index, i)}

C3_Completeness ==
    (SingleDone /\ mp_in.tamper = "none" /\ mp_in.index >= 1) => mp_out = Ok(TRUE)

\* C7: the multiproof over the helper-index proof accepts exactly when every
\* single proof (leaves[j], sibling path of indices[j], indices[j]) verifies
\* against the same root.
C7_MultiproofEquivalence ==
    (/\ MultiDone
     /\ mp_in.tamper \in {"none", "leaf", "root"}
     /\ Len(mp_in.indices) >= 1
     /\ \A j \in 1..Len(mp_in.indices) : mp_in.indices[j] >= 1)
    => (mp_out = Ok(TRUE)) =
         (\A j \in 1..Len(mp_in.indices) :
            verify_merkle_proof(mp_in.leaves[j],
                                SiblingPath(mp_in.tree, mp_in.indices[j]), 0,
                                mp_in.indices[j], mp_in.root) = Ok(TRUE))

(***************************************************************************)
(* Properties of merkle_root                                               *)
(***************************************************************************)
MerkleDone == ~IsPending(mk_out) /\ mk_in \in MerkleInputs

\* leaf i (0-based) of the tree over the buffer: its i-th 32-byte chunk, the
\* last one zero-padded, and the all-zero chunk beyond the buffer
LeafChunk(bytes, i) ==
    RawChunk(Resize(SubSeq(bytes, i * BYTES_PER_CHUNK + 1,
                           Min(Len(bytes), (i + 1) * BYTES_PER_CHUNK)),
                    BYTES_PER_CHUNK))

\* root of the perfect subtree over leaves first .. first + count - 1
RECURSIVE PerfectRoot(_, _, _)
PerfectRoot(bytes, first, count) ==
    IF count = 1 THEN LeafChunk(bytes, first)
    ELSE hash_and_concat(PerfectRoot(bytes, first, count \div 2),
                         PerfectRoot(bytes, first + count \div 2, count \div 2))

TotalLeaves(bytes, min_leaves) ==
    next_power_of_two(Max((Len(bytes) + BYTES_PER_CHUNK - 1) \div BYTES_PER_CHUNK, min_leaves))

\* C4: for a buffer longer than 32 bytes merkle_root is the root of the perfect
\* tree over next_power_of_two(max(ceil(len/32), minimum_leaf_count)) leaves.
C4_MerkleRootIsPerfectTreeRoot ==
    (MerkleDone /\ Len(mk_in.bytes) > BYTES_PER_CHUNK) =>
        mk_out = Ok(<<PerfectRoot(mk_in.bytes, 0, TotalLeaves(mk_in.bytes, mk_in.min_leaves))>>)

\* C5: merkleize reaches none of its fatal assertions and returns exactly one
\* 32-byte chunk.
C5_MerkleizeCompletes ==
    MerkleDone => (IsOk(mk_out) /\ Len(mk_out.v) = 1)

(***************************************************************************)
(* Properties of the codec                                                 *)
(***************************************************************************)
RoundTripDone == sz_in.kind = "value" /\ ~IsPending(sz_dec)
DecodeDone == sz_in.kind = "bytes" /\ ~IsPending(sz_dec)
ReEncoded == sz_in.kind = "bytes" /\ IsOk(sz_dec) /\ IsOk(sz_enc)

\* C1: decoding the encoding of a value v of any supported type returns
\* Ok(v).
C1_RoundTrip == RoundTripDone => sz_dec = Ok(sz_in.v)

\* C6: whenever bytes decode to Ok(v) as an Option, a Vec or a derived
\* struct, encoding v gives the same bytes back.
C6_CanonicalOnly ==
    (ReEncoded /\ sz_in.ty.k \in {"opt", "vec", "struct"}) => sz_enc.v = sz_in.bytes

\* C10 reads the list as the format describes it: slot i holds offset_i
ListCase ==
    /\ DecodeDone
    /\ sz_in.ty.k = "vec"
    /\ ~is_ssz_fixed_len(sz_in.ty.t)
    /\ sz_in.bytes # <<>>

SlotReadable(bytes, i) == BYTES_PER_LENGTH_OFFSET * (i + 1) <= Len(bytes)
SlotValue(bytes, i) ==
    from_le_bytes(SubSeq(bytes, BYTES_PER_LENGTH_OFFSET * i + 1, BYTES_PER_LENGTH_OFFSET * (i + 1)))
ListCount(bytes) == SlotValue(bytes, 0) \div BYTES_PER_LENGTH_OFFSET

\* bytes[offset_i .. offset_{i+1}], and bytes[offset_{n-1} ..] for the last
ListItemBytes(bytes, i) ==
    IF i = ListCount(bytes) - 1
    THEN SubSeq(bytes, SlotValue(bytes, i) + 1, Len(bytes))
    ELSE SubSeq(bytes, SlotValue(bytes, i) + 1, SlotValue(bytes, i + 1))

\* the items whose slot lies within the bytes, and the first one after them
ListScan(bytes) ==
    0..Min(ListCount(bytes) - 1, Len(bytes) \div BYTES_PER_LENGTH_OFFSET)

\* some offset slot of the list has fewer than 4 bytes
ListSlotShort(bytes) ==
    \/ ~SlotReadable(bytes, 0)
    \/ /\ SlotValue(bytes, 0) >= BYTES_PER_LENGTH_OFFSET
       /\ \E i \in ListScan(bytes) : ~SlotReadable(bytes, i)

\* some offset that can be read is smaller than its predecessor or larger
\* than bytes.len(), or offset_0 < 4
ListOffsetBad(bytes) ==
    /\ SlotReadable(bytes, 0)
    /\ \/ SlotValue(bytes, 0) < BYTES_PER_LENGTH_OFFSET
       \/ \E i \in ListScan(bytes) :
            /\ SlotReadable(bytes, i)
            /\ \/ SlotValue(bytes, i) > Len(bytes)
               \/ i > 0 /\ SlotValue(bytes, i) < SlotValue(bytes, i - 1)

ListItemsAsDescribed(T, bytes, items) ==
    /\ Len(items) = ListCount(bytes)
    /\ \A i \in 0..(ListCount(bytes) - 1) :
          from_ssz_bytes(T, ListItemBytes(bytes, i)) = Ok(items[i + 1])

\* C10 as stated: n = offset_0 / 4 items cut at the offsets; OutOfBoundsByte
\* whenever an offset is out of order or out of range, InvalidLengthPrefix
\* whenever a slot is short.
C10_AsStated ==
    ListCase =>
        /\ IsOk(sz_dec) => ListItemsAsDescribed(sz_in.ty.t, sz_in.bytes, sz_dec.v)
        /\ ListOffsetBad(sz_in.bytes) => ErrKind(sz_dec, "OutOfBoundsByte")
        /\ ListSlotShort(sz_in.bytes) => ErrKind(sz_dec, "InvalidLengthPrefix")

\* what reading item i finds, the items before it being in order: "slot" when
\* the slot of the next offset is short, "offset" when the item's range is
\* out of order or out of range, "item" when the item's bytes do not decode
ListItemFault(T, bytes, i) ==
    LET n == ListCount(bytes)
    IN  IF ~SlotReadable(bytes, i) \/ (i < n - 1 /\ ~SlotReadable(bytes, i + 1)) THEN "slot"
        ELSE IF i < n - 1 /\ (SlotValue(bytes, i) > SlotValue(bytes, i + 1)
                              \/ SlotValue(bytes, i + 1) > Len(bytes)) THEN "offset"
        ELSE IF i = n - 1 /\ SlotValue(bytes, i) > Len(bytes) THEN "offset"
        ELSE IF ~IsOk(from_ssz_bytes(T, ListItemBytes(bytes, i))) THEN "item"
        ELSE "none"

ListFirstFault(T, bytes) ==
    LET bad == {i \in ListScan(bytes) : ListItemFault(T, bytes, i) # "none"}
    IN  IF bad = {} THEN [at |-> -1, fault |-> "none"]
        ELSE [at |-> SetMin(bad), fault |-> ListItemFault(T, bytes, SetMin(bad))]

\* C10 amended: the checks are made item by item and the first one that
\* fails decides the error; with none failing the result is the n items.
C10_FirstFaultDecides ==
    ListCase =>
        LET T == sz_in.ty.t
            bytes == sz_in.bytes
        IN  IF ~SlotReadable(bytes, 0) THEN ErrKind(sz_dec, "InvalidLengthPrefix")
            ELSE IF SlotValue(bytes, 0) < BYTES_PER_LENGTH_OFFSET
            THEN ErrKind(sz_dec, "OutOfBoundsByte")
            ELSE LET first == ListFirstFault(T, bytes)
                 IN  CASE first.fault = "none" ->
                            IsOk(sz_dec) /\ ListItemsAsDescribed(T, bytes, sz_dec.v)
                       [] first.fault = "slot" -> ErrKind(sz_dec, "InvalidLengthPrefix")
                       [] first.fault = "offset" -> ErrKind(sz_dec, "OutOfBoundsByte")
                       [] first.fault = "item" ->
                            sz_dec = from_ssz_bytes(T, ListItemBytes(bytes, first.at))

\* C10 witness: a list of two items decoded, the first one not empty
C10_Witness ==
    /\ ListCase
    /\ IsOk(sz_dec)
    /\ Len(sz_dec.v) = 2
    /\ sz_dec.v[1] # sz_dec.v[2]

(***************************************************************************)
(* Properties of SszEncoder                                                *)
(***************************************************************************)
EncoderDone == enc_log.phase = "final"
ItemBytes(item) == as_ssz_bytes(item[1], item[2])
ItemIsVariable(item) == ~is_ssz_fixed_len(item[1])

RECURSIVE HeadLength(_, _)
\* the bytes the first k items take in the head
HeadLength(items, k) ==
    IF k = 0 THEN 0 ELSE HeadLength(items, k - 1) + ssz_fixed_len(items[k][1])

RECURSIVE PayloadLength(_, _)
\* total encoded length of the variable-length items among the first k
PayloadLength(items, k) ==
    IF k = 0 THEN 0
    ELSE PayloadLength(items, k - 1)
         + (IF ItemIsVariable(items[k]) THEN Len(ItemBytes(items[k])) ELSE 0)

\* buf[from .. from + n), positions counted from the start of the container
ContainerBytes(from, n) ==
    SubSeq(enc.buf, Len(enc_log.base) + from + 1, Len(enc_log.base) + from + n)

\* the offset written in the head for item k
OffsetWritten(k) ==
    from_le_bytes(ContainerBytes(HeadLength(enc_log.items, k - 1), BYTES_PER_LENGTH_OFFSET))

VariableItems == {k \in 1..Len(enc_log.items) : ItemIsVariable(enc_log.items[k])}

HeadSized == enc_log.h = HeadLength(enc_log.items, Len(enc_log.items))

\* C9: after container(buf, h), appends whose fixed lengths sum to h, and
\* finalize, the offset written for each variable-length item is h plus the
\* encoded length of the variable-length items before it; so the offsets
\* never decrease, the first is h, and each payload lies at its offset, the
\* payloads following the head in append order.
C9_OffsetsAndLayout ==
    (EncoderDone /\ HeadSized) =>
        LET items == enc_log.items
            h == enc_log.h
        IN  /\ Len(enc.buf) = Len(enc_log.base) + h + PayloadLength(items, Len(items))
            /\ SubSeq(enc.buf, 1, Len(enc_log.base)) = enc_log.base
            /\ \A k \in 1..Len(items) :
                  IF ItemIsVariable(items[k])
                  THEN /\ OffsetWritten(k) = h + PayloadLength(items, k - 1)
                       /\ ContainerBytes(OffsetWritten(k), Len(ItemBytes(items[k])))
                              = ItemBytes(items[k])
                  ELSE ContainerBytes(HeadLength(items, k - 1), ssz_fixed_len(items[k][1]))
                              = ItemBytes(items[k])
            /\ \A j, k \in VariableItems : j < k => OffsetWritten(j) <= OffsetWritten(k)
            /\ VariableItems # {} => OffsetWritten(SetMin(VariableItems)) = h

\* C9 witness: a finalized container with a fixed item and two variable
\* items, the first of them with a payload
C9_Witness ==
    /\ EncoderDone
    /\ HeadSized
    /\ Cardinality(VariableItems) = 2
    /\ Len(enc_log.items) = 3
    /\ Len(ItemBytes(enc_log.items[SetMin(VariableItems)])) > 0
    /\ enc_log.base # <<>>

(***************************************************************************)
(* Properties of SszDecoderBuilder                                         *)
(***************************************************************************)
BuilderDone == bld_log.phase \in {"built", "failed"}
FieldIsVariable(fs, i) == ~is_ssz_fixed_len(fs[i])

RECURSIVE HeadPosition(_, _)
\* where the head slot of field i starts; HeadPosition(fs, Len(fs) + 1) is
\* the head size
HeadPosition(fs, i) ==
    IF i = 1 THEN 0 ELSE HeadPosition(fs, i - 1) + ssz_fixed_len(fs[i - 1])

HeadSize(fs) == HeadPosition(fs, Len(fs) + 1)
VariableFields(fs) == {i \in 1..Len(fs) : FieldIsVariable(fs, i)}
PreviousVariable(fs, i) ==
    LET before == {j \in VariableFields(fs) : j < i}
    IN  IF before = {} THEN 0 ELSE SetMax(before)
NextVariable(fs, i) ==
    LET after == {j \in VariableFields(fs) : j > i}
    IN  IF after = {} THEN 0 ELSE SetMin(after)

OffsetReadable(bytes, fs, i) == HeadPosition(fs, i) + BYTES_PER_LENGTH_OFFSET <= Len(bytes)
OffsetOf(bytes, fs, i) ==
    from_le_bytes(SubSeq(bytes, HeadPosition(fs, i) + 1,
                         HeadPosition(fs, i) + BYTES_PER_LENGTH_OFFSET))

\* an offset that can be read breaks one of the three rules
OffsetViolation(bytes, fs) ==
    \E i \in VariableFields(fs) :
        /\ OffsetReadable(bytes, fs, i)
        /\ \/ PreviousVariable(fs, i) = 0 /\ OffsetOf(bytes, fs, i) # HeadSize(fs)
           \/ /\ PreviousVariable(fs, i) # 0
              /\ OffsetOf(bytes, fs, i) < OffsetOf(bytes, fs, PreviousVariable(fs, i))
           \/ OffsetOf(bytes, fs, i) > Len(bytes)

\* the call that failed is the register_type of a variable-length field
\* whose offset slot has fewer than 4 bytes
OffsetSlotShort(bytes, fs) ==
    /\ bld_log.phase = "failed"
    /\ bld_log.registered >= 1
    /\ FieldIsVariable(fs, bld_log.registered)
    /\ ~OffsetReadable(bytes, fs, bld_log.registered)

\* C8 as stated: build succeeds only with the offsets in order; any
\* violation gives OutOfBoundsByte, a short offset slot InvalidLengthPrefix.
C8_AsStated ==
    BuilderDone =>
        /\ bld_log.phase = "built" => ~OffsetViolation(bld.bytes, bld_log.fields)
        /\ OffsetViolation(bld.bytes, bld_log.fields) => ErrKind(bld_log.res, "OutOfBoundsByte")
        /\ OffsetSlotShort(bld.bytes, bld_log.fields) => ErrKind(bld_log.res, "InvalidLengthPrefix")

\* what register_type finds at field i, the fields before it being in order
FieldFault(bytes, fs, i) ==
    IF ~FieldIsVariable(fs, i)
    THEN IF HeadPosition(fs, i + 1) > Len(bytes) THEN "length" ELSE "none"
    ELSE IF ~OffsetReadable(bytes, fs, i) THEN "prefix"
    ELSE LET p == PreviousVariable(fs, i)
         IN  IF p # 0 /\ ~OffsetReadable(bytes, fs, p) THEN "prefix"
             ELSE IF OffsetOf(bytes, fs, i) > Len(bytes) THEN "bounds"
             ELSE IF OffsetOf(bytes, fs, i)
                       < (IF p = 0 THEN BYTES_PER_LENGTH_OFFSET ELSE OffsetOf(bytes, fs, p))
             THEN "bounds"
             ELSE "none"

FaultyFields(bytes, fs) == {i \in 1..Len(fs) : FieldFault(bytes, fs, i) # "none"}

\* the slice the built decoder holds for field i
FieldBytes(bytes, fs, i) ==
    IF ~FieldIsVariable(fs, i)
    THEN SubSeq(bytes, HeadPosition(fs, i) + 1, HeadPosition(fs, i + 1))
    ELSE IF NextVariable(fs, i) = 0
    THEN SubSeq(bytes, OffsetOf(bytes, fs, i) + 1, Len(bytes))
    ELSE SubSeq(bytes, OffsetOf(bytes, fs, i) + 1, OffsetOf(bytes, fs, NextVariable(fs, i)))

\* C8 amended: the fields are checked in order and the first failing check
\* decides the error: InvalidByteLength for a fixed-length field that ends
\* beyond the bytes, InvalidLengthPrefix for an offset slot with fewer than
\* 4 bytes, OutOfBoundsByte for an offset below its predecessor (below 4 for
\* the first) or above bytes.len(); with every field in order, build returns
\* OutOfBoundsByte when the first offset is not the head size and otherwise
\* succeeds with each field's slice.
C8_FirstFailingCheckDecides ==
    BuilderDone =>
        LET bytes == bld.bytes
            fs == bld_log.fields
            bad == FaultyFields(bytes, fs)
            vars_ == VariableFields(fs)
        IN  IF bad # {}
            THEN /\ bld_log.phase = "failed"
                 /\ bld_log.registered = SetMin(bad)
                 /\ CASE FieldFault(bytes, fs, SetMin(bad)) = "length" ->
                            ErrKind(bld_log.res, "InvalidByteLength")
                      [] FieldFault(bytes, fs, SetMin(bad)) = "prefix" ->
                            ErrKind(bld_log.res, "InvalidLengthPrefix")
                      [] FieldFault(bytes, fs, SetMin(bad)) = "bounds" ->
                            ErrKind(bld_log.res, "OutOfBoundsByte")
            ELSE IF vars_ # {} /\ OffsetOf(bytes, fs, SetMin(vars_)) # HeadSize(fs)
            THEN /\ bld_log.phase = "failed"
                 /\ bld_log.registered = Len(fs)
                 /\ ErrKind(bld_log.res, "OutOfBoundsByte")
            ELSE /\ bld_log.phase = "built"
                 /\ Len(bld_log.res.v) = Len(fs)
                 /\ \A i \in 1..Len(fs) : bld_log.res.v[i] = FieldBytes(bytes, fs, i)

\* C8 witness: a decoder built for a fixed-length field and two
\* variable-length fields, the first of them with a payload
C8_Witness ==
    /\ bld_log.phase = "built"
    /\ Cardinality(VariableFields(bld_log.fields)) = 2
    /\ Len(bld_log.fields) = 3
    /\ bld_log.res.v[SetMin(VariableFields(bld_log.fields))] # <<>>

(***************************************************************************)
(* Union (Option<T>)                                                       *)
(***************************************************************************)
OptionCase == sz_in.kind # "none" /\ sz_in.ty.k = "opt"

\* the bytes handed to from_ssz_bytes in the current run
DecodedBytes == IF sz_in.kind = "bytes" THEN sz_in.bytes ELSE sz_enc.v

UnionIndex(bytes) == from_le_bytes(SubSeq(bytes, 1, 4))

\* C11: None encodes as [0,0,0,0] and Some(v) as [1,0,0,0] followed by v's
\* bytes; decoding fewer than 4 bytes is an error (InvalidByteLength), index 0
\* gives None, index 1 gives Some of the decoded remaining bytes (or the
\* error of that decoding), any other index gives BytesInvalid.
C11_Union ==
    /\ (OptionCase /\ sz_in.kind = "value" /\ IsOk(sz_enc)) =>
            sz_enc.v = IF sz_in.v.some
                       THEN <<1, 0, 0, 0>> \o as_ssz_bytes(sz_in.ty.t, sz_in.v.v)
                       ELSE <<0, 0, 0, 0>>
    /\ (OptionCase /\ ~IsPending(sz_dec)) =>
            LET bytes == DecodedBytes
                rest == SubSeq(bytes, 5, Len(bytes))
                inner == from_ssz_bytes(sz_in.ty.t, rest)
            IN  CASE Len(bytes) < 4 -> sz_dec = Err(InvalidByteLength(Len(bytes), 4))
                  [] Len(bytes) >= 4 /\ UnionIndex(bytes) = 0 -> sz_dec = Ok(None)
                  [] Len(bytes) >= 4 /\ UnionIndex(bytes) = 1 ->
                        sz_dec = IF IsOk(inner) THEN Ok(Some(inner.v)) ELSE inner
                  [] OTHER -> ErrKind(sz_dec, "BytesInvalid")

\* C11 witness: bytes with union index 1 decoded to Some(v), v not empty
C11_Witness ==
    /\ OptionCase
    /\ sz_in.kind = "bytes"
    /\ sz_in.ty = OptT(VecT(U8))
    /\ IsOk(sz_dec)
    /\ sz_dec.v.some
    /\ sz_dec.v.v # <<>>

(***************************************************************************)
(* Fixed-width primitives                                                  *)
(***************************************************************************)
PrimitiveCase == sz_in.kind = "bytes" /\ sz_in.ty \in PrimitiveTypes /\ ~IsPending(sz_dec)

\* the width in bytes the format gives each primitive
PrimitiveWidth(T) ==
    CASE T = U8 -> 1 [] T = U16 -> 2 [] T = U32 -> 4 [] T = U64 -> 8
      [] T = BoolT -> 1 [] T = H256T -> 32 [] T = U128 -> 16 [] T = U256 -> 32

\* C12: a primitive of width w decodes to Err(InvalidByteLength{len, w})
\* exactly when len # w; a bool of one byte is false for 0, true for 1 and
\* BytesInvalid for any other byte.
C12_PrimitiveLengths ==
    PrimitiveCase =>
        LET w == PrimitiveWidth(sz_in.ty)
            len == Len(sz_in.bytes)
        IN  /\ (len # w) => sz_dec = Err(InvalidByteLength(len, w))
            /\ (len = w) => ~ErrKind(sz_dec, "InvalidByteLength")
            /\ (len = w /\ sz_in.ty # BoolT) => IsOk(sz_dec)
            /\ (len = w /\ sz_in.ty = BoolT) =>
                    CASE sz_in.bytes[1] = 0 -> sz_dec = Ok(FALSE)
                      [] sz_in.bytes[1] = 1 -> sz_dec = Ok(TRUE)
                      [] OTHER -> ErrKind(sz_dec, "BytesInvalid")

\* C12 witness: a 32-byte string decoded as U256, and 33 bytes refused
C12_Witness ==
    /\ PrimitiveCase
    /\ sz_in.ty = U256
    /\ Len(sz_in.bytes) = 32
    /\ sz_dec = Ok(255 + 256 * 7)

\* C12 witness of the boolean case: the byte 2 refused as BytesInvalid
C12_WitnessBool ==
    /\ PrimitiveCase
    /\ sz_in.ty = BoolT
    /\ sz_in.bytes = <<2>>
    /\ ErrKind(sz_dec, "BytesInvalid")

(***************************************************************************)
(* Properties of FixedVector and VariableList                              *)
(***************************************************************************)
\* C13: every FixedVector obtained from new, from_elem, From<Vec<T>>,
\* Default or from_ssz_bytes has len() = N; new(items) returns
\* Err(OutOfBounds{i: items.len(), len: N}) unless items.len() = N; From
\* truncates or pads with T::default() to exactly N.
C13_FixedVectorLength ==
    /\ IsOk(fv.r) => Len(fv.r.v) = fv.N
    /\ (fv_log.op = "new" /\ fv_log.muts = 0) =>
            fv.r = IF Len(fv_log.arg) = fv.N THEN Ok(fv_log.arg)
                   ELSE Err(OutOfBounds(Len(fv_log.arg), fv.N))
    /\ (fv_log.op = "from" /\ fv_log.muts = 0) =>
            /\ IsOk(fv.r)
            /\ Len(fv.r.v) = fv.N
            /\ \A i \in 1..fv.N :
                  fv.r.v[i] = IF i <= Len(fv_log.arg) THEN fv_log.arg[i]
                              ELSE DefaultValue(fv.ty)

\* C14: a FixedVector is decoded only from bytes that encode exactly N
\* elements: N * ssz_fixed_len bytes for a fixed-length element type, a list
\* of exactly N items for a variable-length one.
C14_DecodeExactlyN ==
    (fv_log.op = "from_ssz_bytes" /\ fv_log.muts = 0 /\ IsOk(fv.r)) =>
        IF is_ssz_fixed_len(fv.ty)
        THEN Len(fv_log.arg) = fv.N * ssz_fixed_len(fv.ty)
        ELSE LET items == from_ssz_bytes(VecT(fv.ty), fv_log.arg)
             IN  IsOk(items) /\ Len(items.v) = fv.N

\* C15: a VariableList never holds more than N items; new fails with
\* OutOfBounds above N; more than N decoded items are refused; push on a full
\* list returns Err(OutOfBounds{i: len + 1, len: N}) and changes nothing, and
\* otherwise appends the value at the end.
C15_VariableListBound ==
    /\ IsOk(vl.r) => Len(vl.r.v) <= vl.N
    /\ vl_log.last = "new" =>
            vl.r = IF Len(vl_log.arg) <= vl.N THEN Ok(vl_log.arg)
                   ELSE Err(OutOfBounds(Len(vl_log.arg), vl.N))
    /\ vl_log.last = "from_ssz_bytes" =>
            LET items == from_ssz_bytes(VecT(vl.ty), vl_log.arg)
            IN  (IsOk(items) /\ Len(items.v) > vl.N) => IsErr(vl.r)
    /\ vl_log.last = "push" =>
            LET before == vl_log.arg.before
            IN  IF Len(before) >= vl.N
                THEN /\ vl_log.arg.res = Err(OutOfBounds(Len(before) + 1, vl.N))
                     /\ vl.r = Ok(before)
                ELSE /\ IsOk(vl_log.arg.res)
                     /\ vl.r = Ok(Append(before, vl_log.arg.value))

\* C15 witness: a push refused on a full list of two items that was filled
\* by an earlier push
C15_Witness ==
    /\ vl_log.last = "push"
    /\ vl_log.muts = 2
    /\ vl.N = 2
    /\ IsErr(vl_log.arg.res)
    /\ IsOk(vl.r)
    /\ Len(vl.r.v) = 2

(***************************************************************************)
(* Properties of Bitfield                                                  *)
(***************************************************************************)
\* bit i of a byte string, read as the format lays it out: byte i / 8,
\* mask 1 << (i % 8)
WireBit(bytes, i) == (bytes[(i \div 8) + 1] \div Pow2(i % 8)) % 2 = 1
BitAt(b, i) == WireBit(b.bytes, i)
SetBits(bytes) == {i \in 0..(8 * Len(bytes) - 1) : WireBit(bytes, i)}
SameBits(a, b, n) == \A i \in 0..(n - 1) : BitAt(a, i) = BitAt(b, i)

\* C16: for a BitList b of len <= N, into_bytes gives ceil((len + 1) / 8)
\* bytes holding b's bits with the marker bit at position len as the highest
\* bit set, and from_bytes of them gives back a bitfield of the same len and
\* the same bits.
C16_BitfieldRoundTrip ==
    (bf.kind = "Variable" /\ bf_log.op \in {"into_bytes", "round_trip"}
                          /\ bf_log.before.len <= bf.N) =>
        LET b == bf_log.before
            wire == bf_log.res
        IN  /\ IsOk(wire)
            /\ Len(wire.v) = (b.len + 1 + 7) \div 8
            /\ SetMax(SetBits(wire.v)) = b.len
            /\ \A i \in 0..(b.len - 1) : WireBit(wire.v, i) = BitAt(b, i)
            /\ bf_log.op = "round_trip" =>
                    /\ IsOk(bf.r)
                    /\ bf.r.v.len = b.len
                    /\ SameBits(bf.r.v, b, b.len)

\* C16 witness: a BitList of 8 bits, some of them set, written to two bytes
\* and read back
C16_Witness ==
    /\ bf.kind = "Variable"
    /\ bf_log.op = "round_trip"
    /\ bf_log.before.len = 8
    /\ bf_log.before.bytes = <<5>>
    /\ bf_log.res = Ok(<<5, 1>>)
    /\ bf.r = Ok(bf_log.before)

\* C17: BitList::from_bytes returns MissingLengthInformation when no bit is
\* set (the empty byte string included); otherwise, with h the highest bit
\* set, InvalidByteCount when h / 8 + 1 is not the byte count, else
\* OutOfBounds when h > N, else Ok of a bitfield of length h with the bits of
\* the input below h.
C17_FromBytes ==
    (bf.kind = "Variable" /\ bf_log.op = "from_bytes") =>
        LET bytes == bf_log.arg
            set == SetBits(bytes)
            h == SetMax(set)
        IN  IF set = {} THEN bf.r = Err(MissingLengthInformation)
            ELSE IF (h \div 8) + 1 # Len(bytes) THEN ErrKind(bf.r, "InvalidByteCount")
            ELSE IF h > bf.N THEN ErrKind(bf.r, "OutOfBounds")
            ELSE /\ IsOk(bf.r)
                 /\ bf.r.v.len = h
                 /\ \A i \in 0..(h - 1) : BitAt(bf.r.v, i) = WireBit(bytes, i)

\* C18: every BitList obtained through the public API has len() <= N.
C18_VariableLength ==
    (bf.kind = "Variable" /\ IsOk(bf.r)) => bf.r.v.len <= bf.N

\* C19: set(i, v) with i < len returns Ok, makes get(i) = Ok(v), leaves len
\* and every other bit as they were and writes bit i in byte i / 8 under
\* mask 1 << (i % 8); with i >= len set and get return
\* Err(OutOfBounds{i, len}) and change nothing; get(i) with i < len returns
\* the bit and changes nothing.
C19_GetSet ==
    /\ bf_log.op = "set" =>
            LET b == bf_log.before
                i == bf_log.arg[1]
                v == bf_log.arg[2]
                after == bf.r.v
            IN  IF i < b.len
                THEN /\ IsOk(bf_log.res)
                     /\ IsOk(bf.r)
                     /\ after.len = b.len
                     /\ Len(after.bytes) = Len(b.bytes)
                     /\ Bitfield_get(after, i) = Ok(v)
                     /\ \A j \in 0..(8 * Len(b.bytes) - 1) :
                           BitAt(after, j) = IF j = i THEN v ELSE BitAt(b, j)
                ELSE /\ bf_log.res = Err(OutOfBounds(i, b.len))
                     /\ bf.r = Ok(b)
    /\ bf_log.op = "get" =>
            LET b == bf_log.before
                i == bf_log.arg
            IN  /\ bf.r = Ok(b)
                /\ bf_log.res = IF i < b.len THEN Ok(BitAt(b, i))
                                ELSE Err(OutOfBounds(i, b.len))

\* C19 witness: bit 8 of a 9-bit bitfield set, in the second byte
C19_Witness ==
    /\ bf_log.op = "set"
    /\ bf_log.arg = <<8, TRUE>>
    /\ bf_log.before.len = 9
    /\ bf_log.before.bytes = <<5, 0>>
    /\ bf.r = Ok([bytes |-> <<5, 1>>, len |-> 9])

\* C20: shift_up(n) with n <= len returns Ok, keeps len, moves bit i - n to
\* bit i for n <= i < len and clears the bits below n, the bits moved to len
\* and above being dropped; with n > len it returns Err(OutOfBounds{i: n, len})
\* and changes nothing.
C20_ShiftUp ==
    bf_log.op = "shift_up" =>
        LET b == bf_log.before
            n == bf_log.arg
            after == bf.r.v
        IN  IF n <= b.len
            THEN /\ IsOk(bf_log.res)
                 /\ IsOk(bf.r)
                 /\ after.len = b.len
                 /\ Len(after.bytes) = Len(b.bytes)
                 /\ \A i \in 0..(8 * Len(b.bytes) - 1) :
                       BitAt(after, i) = IF i >= b.len THEN BitAt(b, i)
                                         ELSE IF i >= n THEN BitAt(b, i - n)
                                         ELSE FALSE
            ELSE /\ bf_log.res = Err(OutOfBounds(n, b.len))
                 /\ bf.r = Ok(b)

\* C20 witness: a 9-bit bitfield with bit 7 set shifted up by one, the bit
\* moving into the second byte
C20_Witness ==
    /\ bf_log.op = "shift_up"
    /\ bf_log.arg = 1
    /\ bf_log.before = [bytes |-> <<128, 0>>, len |-> 9]
    /\ bf.r = Ok([bytes |-> <<0, 1>>, len |-> 9])

(***************************************************************************)
(* Properties of the short-buffer branch and of the zero-hash table        *)
(***************************************************************************)
\* the buffer followed by as many zero bytes as are missing to n bytes
RightPadded(b, n) == b \o [i \in 1..(n - Len(b)) |-> 0]

\* C21: for a buffer of 0..=32 bytes and every minimum_leaf_count the Merkle
\* root is the buffer right-padded with zero bytes to exactly 32 bytes, and
\* no hash is applied.
C21_ShortBufferRoot ==
    (MerkleDone /\ Len(mk_in.bytes) <= BYTES_PER_CHUNK) =>
        /\ mk_out = Ok(<<RawChunk(RightPadded(mk_in.bytes, 32))>>)
        /\ Len(mk_out.v[1][2]) = 32

\* C21 witness: a five-byte buffer with non-zero bytes and four minimum
\* leaves has been merkleized into the padded buffer.
C21_Witness ==
    /\ MerkleDone
    /\ Len(mk_in.bytes) = 5
    /\ mk_in.bytes[5] # 0
    /\ mk_in.min_leaves = 4
    /\ IsOk(mk_out)
    /\ mk_out.v[1][1] = "raw"

\* C21 witness: the empty buffer has been merkleized.
C21_WitnessEmpty ==
    MerkleDone /\ mk_in.bytes = <<>> /\ IsOk(mk_out)

\* the depths d whose 2^d all-zero chunks are the buffer of the call
ZeroDepths ==
    {d \in 0..Min(MAX_TREE_DEPTH, FloorLog2(MaxBytes \div BYTES_PER_CHUNK)) :
        /\ mk_in.bytes = Zeros(Pow2(d) * BYTES_PER_CHUNK)
        /\ mk_in.min_leaves = Pow2(d)}

\* C22: for every depth d in 0..=MAX_TREE_DEPTH the zero-hash table entry
\* (zero_hash[0] = 32 zero bytes, zero_hash[d] = hash(zero_hash[d-1] ++
\* zero_hash[d-1])) equals the result of merkleizing 2^d all-zero chunks with
\* minimum_leaf_count = 2^d.
C22_ZeroHashTable ==
    MerkleDone =>
        \A d \in ZeroDepths : mk_out = Ok(<<ZERO_HASHES(d)>>)

(***************************************************************************)
(* Properties of the parameter checks and of the multiproof                *)
(***************************************************************************)
\* C23: for every generalized index k >= 1 verify_merkle_proof returns
\* Err(InvalidParamLength{len_first: proof.len(), len_second: floor(log2(k))})
\* exactly when proof.len() differs from floor(log2(k)), whatever the depth
\* argument is, and Ok of a boolean otherwise.
C23_ProofLengthCheck ==
    (SingleDone /\ mp_in.index >= 1) =>
        IF Len(mp_in.proof) # FloorLog2(mp_in.index)
        THEN mp_out = Err(InvalidParamLength(Len(mp_in.proof), FloorLog2(mp_in.index)))
        ELSE IsOk(mp_out) /\ mp_out.v \in BOOLEAN

\* proofs and roots put in place of the supplied ones
OtherProofs == {<<>>, <<OutsideValue>>, <<OutsideValue, OutsideValue>>, mp_in.proof}
OtherRoots == {OutsideValue, mp_in.root}

\* C24: verify_merkle_multiproof returns Err(InvalidParamLength{len_first:
\* leaves.len(), len_second: indices.len()}) whenever leaves.len() differs from
\* indices.len(), whatever the proof and the root are.
C24_LeafCountCheck ==
    (MultiDone /\ Len(mp_in.leaves) # Len(mp_in.indices)) =>
        /\ mp_out = Err([kind |-> "InvalidParamLength",
                         len_first |-> Len(mp_in.leaves),
                         len_second |-> Len(mp_in.indices)])
        /\ \A p \in OtherProofs : \A r \in OtherRoots :
             verify_merkle_multiproof(mp_in.leaves, p, mp_in.indices, r) = mp_out

\* C24 witness: a call with two indices and one leaf has returned.
C24_Witness ==
    /\ MultiDone
    /\ Len(mp_in.indices) = 2
    /\ Len(mp_in.leaves) = 1
    /\ IsErr(mp_out)

\* C24 witness: a call with no index and one leaf has returned.
C24_WitnessNoIndex ==
    MultiDone /\ mp_in.indices = <<>> /\ Len(mp_in.leaves) = 1 /\ IsErr(mp_out)

\* node k of the tree a root commits to under a collision-free hash: the
\* root is node 1, and the two arguments of the hash that produced node k are
\* nodes 2k and 2k + 1; a value that is no hash output has no children
RECURSIVE CommittedNode(_, _)
CommittedNode(r, k) ==
    IF k <= 1 THEN r
    ELSE LET p == CommittedNode(r, k \div 2)
         IN  IF p[1] = "h" THEN p[2 + (k % 2)] ELSE <<"none">>

\* C25: when verify_merkle_multiproof returns Ok(true), every leaves[j] is the
\* value of node indices[j] in the tree the root commits to, also when one
\* index is an ancestor of another, when an index is repeated and when index
\* 0 or 1 is supplied (index 0 names no node and is left unconstrained).
C25_MultiproofBinding ==
    (MultiDone /\ mp_out = Ok(TRUE)) =>
        \A j \in 1..Len(mp_in.indices) :
            mp_in.indices[j] >= 1 =>
                mp_in.leaves[j] = CommittedNode(mp_in.root, mp_in.indices[j])

\* C26: for every input with leaves.len() = indices.len(),
\* verify_merkle_multiproof returns Ok(true) or Ok(false) and never aborts,
\* also when indices is empty and when the proof has fewer entries than are
\* needed to derive node 1.
C26_MultiproofReturns ==
    (MultiDone /\ Len(mp_in.leaves) = Len(mp_in.indices)) =>
        mp_out \in {Ok(TRUE), Ok(FALSE)}

\* i followed by its ancestors down to 1, as a set
RECURSIVE PathSet(_)
PathSet(i) == IF i <= 1 THEN {i} ELSE {i} \cup PathSet(i \div 2)

\* the sibling of each node of the path; the root's sibling is 0
BranchSet(i) == {IF p % 2 = 0 THEN p + 1 ELSE p - 1 : p \in PathSet(i)}

HelperCalled == MultiDone /\ Len(mp_in.leaves) = Len(mp_in.indices)

\* C27: get_helper_indices(indices) is strictly descending, has no
\* duplicates and holds exactly the union of the branch indices minus the
\* union of the path indices of the requested indices; get_path_indices(i) is
\* i followed by its ancestors down to 1, get_branch_indices(i) the siblings
\* of the nodes of that path (0 for the root); no requested index and no
\* ancestor of one is a helper index.
C27_HelperIndices ==
    HelperCalled =>
        LET indices == mp_in.indices
            h == get_helper_indices(indices)
            requested == Range(indices)
        IN  /\ \A a, b \in 1..Len(h) : a < b => h[a] > h[b]
            /\ Range(h) = UNION {BranchSet(i) : i \in requested}
                            \ UNION {PathSet(i) : i \in requested}
            /\ \A i \in requested :
                 /\ Range(get_path_indices(i)) = PathSet(i)
                 /\ Range(get_branch_indices(i)) = BranchSet(i)
                 /\ Len(get_path_indices(i)) = Cardinality(PathSet(i))
                 /\ get_path_indices(i)[1] = i
                 /\ PathSet(i) \cap Range(h) = {}

\* C27 witness: the helper indices of a leaf and its parent, [4, 2], have
\* been computed as [5, 3, 0].
C27_Witness ==
    /\ HelperCalled
    /\ mp_in.indices = <<4, 2>>
    /\ get_helper_indices(mp_in.indices) = <<5, 3, 0>>

(***************************************************************************)
(* Properties of the ssz_new Decoder                                       *)
(***************************************************************************)
ReadDone == dcd_log.phase = "read" /\ dcd_log.last.op = "deserialize_next"

Cursors(d) == <<d.fixed_part_offset, d.current_offset_index, d.registration_offset, d.offsets>>

\* C28: once next_type has been called for every field in declaration
\* order, deserialize_next::<T> returns, for a fixed-length T, the next unread
\* fixed-length field of the head (the offset slots of the variable-length
\* fields before it are skipped) and, for a variable-length T, the next unread
\* variable-length field, so the fixed fields may all be read first; a failed
\* deserialize_next leaves the cursors of the decoder as they were.
C28_DecoderReads ==
    ReadDone =>
        /\ dcd_log.cut = 0 =>
              dcd_log.last.r = Ok(dcd_log.values[dcd_log.last.i])
        /\ ~IsOk(dcd_log.last.r) => Cursors(dcd) = Cursors(dcd_log.last.before)

\* C29: after any sequence of public operations (new, with_capacity,
\* from_raw_bytes, from_bytes, set, union, intersection, difference,
\* shift_up) the byte buffer of a bitfield has exactly max(1, ceil(len / 8))
\* bytes and every bit of it at a position >= len is 0.
C29_Representation ==
    IsOk(bf.r) =>
        LET b == bf.r.v
        IN  /\ Len(b.bytes) = Max(1, (b.len + 7) \div 8)
            /\ SetBits(b.bytes) \subseteq 0..(b.len - 1)

\* C29 witness: a call has changed a bitfield whose last byte is partly
\* used and has a bit set (set, shift_up, union, intersection or difference
\* on a bitfield of 3..7 or 9 bits).
C29_Witness ==
    /\ IsOk(bf.r)
    /\ bf_log.op \in {"set", "shift_up", "union", "intersection", "difference"}
    /\ bf.r.v.len % 8 # 0
    /\ bf.r.v # bf_log.before
    /\ SetBits(bf.r.v.bytes) # {}

\* C29 witness: from_raw_bytes has built a bitfield with a bit set just below
\* a length that is no multiple of 8.
C29_WitnessRaw ==
    /\ IsOk(bf.r)
    /\ bf_log.op = "from_raw_bytes"
    /\ bf.r.v.len = 3
    /\ 2 \in SetBits(bf.r.v.bytes)

(***************************************************************************)
(* Properties of process_slots                                             *)
(***************************************************************************)
\* the calls the loop is to make from slot s up to target - 1
RECURSIVE ExpectedCalls(_, _, _)
ExpectedCalls(s, target, spe) ==
    IF s >= target THEN <<>>
    ELSE <<<<"process_slot", s>>>>
            \o (IF (s + 1) % spe = 0 THEN <<<<"process_epoch", s>>>> ELSE <<>>)
            \o ExpectedCalls(s + 1, target, spe)

SlotsCalled == slots.pc # "idle" /\ slots.initial.slot <= slots.slot
SlotsReturned == slots.pc = "returned"

\* what holds when process_slots returns
SlotsAtReturn ==
    SlotsReturned =>
        /\ beacon.slot = slots.slot
        /\ slots.calls = ExpectedCalls(slots.initial.slot, slots.slot,
                                       slots.initial.SlotsPerEpoch)
        /\ slots.initial.slot = slots.slot => beacon = slots.initial

\* process_epoch is called between process_slot of a slot and the increment
SlotsEpochInPlace ==
    slots.pc = "increment" =>
        LET n == Len(slots.calls)
            s == beacon.slot
        IN  IF (s + 1) % beacon.SlotsPerEpoch = 0
            THEN /\ n >= 2
                 /\ slots.calls[n] = <<"process_epoch", s>>
                 /\ slots.calls[n - 1] = <<"process_slot", s>>
            ELSE n >= 1 /\ slots.calls[n] = <<"process_slot", s>>

C30_WitnessNoSlot ==
    SlotsReturned /\ slots.initial.slot = slots.slot /\ slots.calls = <<>>

=============================================================================
